---------------------------- MODULE Spec2Model ----------------------------
(***************************************************************************)
(* Model of the Lanes keeper storage (keeper.cpp) and of the Linda         *)
(* operation protocol (linda.cpp).                                         *)
(*                                                                         *)
(* One Linda and its KeysDB inside one Keeper state are modelled.  A KeyUD *)
(* is a record [first, count, limit, fifo]; its fifo is the Lua table held *)
(* in the uservalue: a function whose domain is the set of indices that    *)
(* hold a non-nil value.                                                   *)
(***************************************************************************)
EXTENDS Integers, Sequences, FiniteSets, TLC

\* ------------------------------------------------------------------ bounds
\* largest fifo index a push of the model may write
MaxIdx == 3
\* largest limit given to linda:limit()
MaxLimit == 2
\* largest number of values given to one send/set, and largest batch bound
MaxN == 2
\* largest number of keys given to one count
MaxKeys == 2
\* largest number of values the concurrent workers send in all
MaxSent == 3

Keys == {"a", "b"}
OneKey == {"a"}
\* the threads that call the Linda concurrently
Workers == {"w1", "w2"}
\* the thread that calls linda:cancel()
Main == "main"
Threads == Workers \cup {Main}
\* Lua values are modelled as strings
Values == {"x", "y"}
Nil == "nil"
True == "true"
False == "false"

\* sequences over S of length lo..hi
SeqsOf(S, lo, hi) == UNION {[1..n -> S] : n \in lo..hi}

\* non-empty sequences of distinct elements of S
DistinctSeqsOf(S) ==
    {q \in SeqsOf(S, 1, Cardinality(S)) : \A i, j \in 1..Len(q) : i # j => q[i] # q[j]}

\* ------------------------------------------------------------------ state
VARIABLES
    KeysDB,         \* LindasDB[linda]: the table key -> KeyUD of the Linda
    cancelRequest,  \* Linda::cancelRequest
    last,           \* the Linda call that was made last, and what it returned
    armed,          \* history: the keys seen full under their limit, see Armed
    pc,             \* each worker: idle, or waiting / notified inside wait_until
    call,           \* the Linda call each worker is in, and its arguments
    sent,           \* history: the values enqueued on the key, in order
    received,       \* history: the values received from the key, in order
    keepers,        \* Universe::keepers: isClosing, the Keeper, its L and its mutex
    lanes,          \* Lane::cancelRequest of each thread's lane
    lindas,         \* the Lindas that lanes.linda() created: group and keeperIndex
    LindasDB        \* the Keeper's table linda -> KeysDB, where several Lindas use it

vars == <<KeysDB, cancelRequest, last, armed, pc, call, sent, received, keepers, lanes,
          lindas, LindasDB>>

\* ------------------------------------------------------------- Lua tables
\* lua_rawgeti: an absent index reads nil
lua_rawgeti(t, i) == IF i \in DOMAIN t THEN t[i] ELSE Nil

\* lua_rawseti: storing nil removes the index
lua_rawseti(t, i, v) ==
    IF v = Nil
    THEN [j \in (DOMAIN t) \ {i} |-> t[j]]
    ELSE [j \in (DOMAIN t) \cup {i} |-> IF j = i THEN v ELSE t[j]]

\* lua_newtable
lua_newtable == [j \in {} |-> Nil]

\* std::min
Min(x, y) == IF x < y THEN x ELSE y

\* ------------------------------------------------------------------ KeyUD
\* KeyUD::Create: { first = 1, count = 0, limit = -1 } and a virgin fifo
KeyUD_Create == [first |-> 1, count |-> 0, limit |-> -1, fifo |-> lua_newtable]

\* KeyUD::peek: the count_ values at first, first+1, ...
KeyUD_peek(key, count_) ==
    [i \in 1..count_ |-> lua_rawgeti(key.fifo, key.first + (i - 1))]

\* the fifo after the items at first .. first+count_-1 were set to nil
RECURSIVE ClearItems(_, _, _)
ClearItems(t, at, n) ==
    IF n = 0 THEN t ELSE ClearItems(lua_rawseti(t, at, Nil), at + 1, n - 1)

\* mutant of KeyUD::pop: the first item ends above the others on the stack
KeyUD_pop_first_last(key, count_) ==
    LET _new_count == key.count - count_
    IN  [vals |-> [i \in 1..count_ |->
                     lua_rawgeti(key.fifo, key.first + (IF i = count_ THEN 0 ELSE i))],
         key  |-> [first |-> IF _new_count = 0 THEN 1 ELSE key.first + count_,
                   count |-> _new_count,
                   limit |-> key.limit,
                   fifo  |-> ClearItems(key.fifo, key.first, count_)]]

\* mutant of KeyUD::pop: first always advances, also when no item is left
KeyUD_pop_no_reset(key, count_) ==
    LET _new_count == key.count - count_
    IN  [vals |-> [i \in 1..count_ |-> lua_rawgeti(key.fifo, key.first + (i - 1))],
         key  |-> [first |-> key.first + count_,
                   count |-> _new_count,
                   limit |-> key.limit,
                   fifo  |-> ClearItems(key.fifo, key.first, count_)]]

\* KeyUD::pop: the values left on the stack, oldest first, and the KeyUD after
KeyUD_pop(key, count_) ==
    LET _new_count == key.count - count_
    IN  [vals |-> [i \in 1..count_ |-> lua_rawgeti(key.fifo, key.first + (i - 1))],
         key  |-> [first |-> IF _new_count = 0 THEN 1 ELSE key.first + count_,
                   count |-> _new_count,
                   limit |-> key.limit,
                   fifo  |-> ClearItems(key.fifo, key.first, count_)]]

\* the fifo after args[1..n] were stored at _start+1 .. _start+n
RECURSIVE StoreItems(_, _, _, _)
StoreItems(t, _start, args, i) ==
    IF i = 0 THEN t
    ELSE StoreItems(lua_rawseti(t, _start + i, args[i]), _start, args, i - 1)

\* mutant of KeyUD::push: the loop stores the arguments from the first down
KeyUD_push_reversed(key, args) ==
    LET _start == key.first + key.count - 1
        rev    == [i \in 1..Len(args) |-> args[Len(args) + 1 - i]]
    IN  [key EXCEPT !.fifo  = StoreItems(key.fifo, _start, rev, Len(args)),
                    !.count = key.count + Len(args)]

\* KeyUD::push: args are appended after the last item
KeyUD_push(key, args) ==
    LET _start == key.first + key.count - 1
    IN  [key EXCEPT !.fifo  = StoreItems(key.fifo, _start, args, Len(args)),
                    !.count = key.count + Len(args)]

\* "replace uservalue with a virgin table, reset counters, but leave limit unchanged"
KeyUD_reset(key) == [key EXCEPT !.fifo = lua_newtable, !.first = 1, !.count = 0]

\* ------------------------------------------------------- keeper primitives
\* A KeysDB is a Lua table: a function whose domain is the set of keys that
\* have a KeyUD.  Each primitive gives the KeysDB after the call and the
\* values it returns.

\* lua_rawset(KeysDB, key, KeyUD)
SetKey(db, k, ud) == [j \in (DOMAIN db) \cup {k} |-> IF j = k THEN ud ELSE db[j]]

\* lua_rawset(KeysDB, key, nil)
RemoveKey(db, k) == [j \in (DOMAIN db) \ {k} |-> db[j]]

\* keepercall_clear: LindasDB[linda] = nil
keepercall_clear(db) == [db |-> [j \in {} |-> KeyUD_Create], ret |-> <<>>]

\* mutant of keepercall_send: the room test is off by one
keepercall_send_over(db, args) ==
    LET k    == args[1]
        vals == SubSeq(args, 2, Len(args))
        db1  == IF k \notin DOMAIN db THEN SetKey(db, k, KeyUD_Create) ELSE db
        _key == db1[k]
        _n   == Len(args) - 1
    IN  IF _key.limit >= 0 /\ _key.count + _n > _key.limit + 1
        THEN [db |-> db1, ret |-> <<False>>]
        ELSE [db |-> SetKey(db1, k, KeyUD_push(_key, vals)), ret |-> <<True>>]

\* mutant of keepercall_send: the room test forgets the values being sent
keepercall_send_count_only(db, args) ==
    LET k    == args[1]
        vals == SubSeq(args, 2, Len(args))
        db1  == IF k \notin DOMAIN db THEN SetKey(db, k, KeyUD_Create) ELSE db
        _key == db1[k]
    IN  IF _key.limit >= 0 /\ _key.count > _key.limit
        THEN [db |-> db1, ret |-> <<False>>]
        ELSE [db |-> SetKey(db1, k, KeyUD_push(_key, vals)), ret |-> <<True>>]

\* keepercall_send: args are <<key, val...>>
keepercall_send(db, args) ==
    LET k    == args[1]
        vals == SubSeq(args, 2, Len(args))
        db1  == IF k \notin DOMAIN db THEN SetKey(db, k, KeyUD_Create) ELSE db
        _key == db1[k]
        _n   == Len(args) - 1
    IN  IF _key.limit >= 0 /\ _key.count + _n > _key.limit
        THEN [db |-> db1, ret |-> <<False>>]
        ELSE [db |-> SetKey(db1, k, KeyUD_push(_key, vals)), ret |-> <<True>>]

\* mutant of keepercall_receive: a later key with data wins over an earlier one
RECURSIVE receive_from_last(_, _, _)
receive_from_last(db, keys, i) ==
    IF i > Len(keys) THEN [db |-> db, ret |-> <<>>]
    ELSE LET later == receive_from_last(db, keys, i + 1)
         IN  IF Len(later.ret) > 0 THEN later
             ELSE IF keys[i] \in DOMAIN db /\ db[keys[i]].count > 0
                  THEN LET p == KeyUD_pop(db[keys[i]], 1)
                       IN  [db |-> SetKey(db, keys[i], p.key), ret |-> <<keys[i], p.vals[1]>>]
                  ELSE [db |-> db, ret |-> <<>>]

\* keepercall_receive: the loop over the keys, from keys[i] on
RECURSIVE receive_from(_, _, _)
receive_from(db, keys, i) ==
    IF i > Len(keys) THEN [db |-> db, ret |-> <<>>]
    ELSE IF keys[i] \in DOMAIN db /\ db[keys[i]].count > 0
         THEN LET p   == KeyUD_pop(db[keys[i]], 1)
                  db1 == SetKey(db, keys[i], p.key)
              IN  IF p.vals[1] # Nil
                  THEN [db |-> db1, ret |-> <<keys[i], p.vals[1]>>]
                  ELSE receive_from(db1, keys, i + 1)
         ELSE receive_from(db, keys, i + 1)

\* keepercall_receive: args are <<key...>>
keepercall_receive(db, args) == receive_from(db, args, 1)

\* mutant of keepercall_receive_batched: only min values are taken
keepercall_receive_batched_min(db, args) ==
    LET k          == args[1]
        _min_count == args[2]
    IN  IF _min_count > 0
        THEN IF k \in DOMAIN db /\ db[k].count >= _min_count
             THEN LET p == KeyUD_pop(db[k], _min_count)
                  IN  [db |-> SetKey(db, k, p.key), ret |-> <<k>> \o p.vals]
             ELSE [db |-> db, ret |-> <<>>]
        ELSE [db |-> db, ret |-> <<>>]

\* keepercall_receive_batched: args are <<key, min>> or <<key, min, max>>
keepercall_receive_batched(db, args) ==
    LET k          == args[1]
        _min_count == args[2]
    IN  IF _min_count > 0
        THEN LET _max_count == IF Len(args) >= 3 THEN args[3] ELSE _min_count
             IN  IF k \in DOMAIN db /\ db[k].count >= _min_count
                 THEN LET p == KeyUD_pop(db[k], Min(_max_count, db[k].count))
                      IN  [db |-> SetKey(db, k, p.key), ret |-> <<k>> \o p.vals]
                 ELSE [db |-> db, ret |-> <<>>]
        ELSE [db |-> db, ret |-> <<>>]

\* mutant of keepercall_limit: an absent limit reads as 0
keepercall_limit_zero(db, args) ==
    LET k      == args[1]
        _limit == IF Len(args) >= 2 THEN args[2] ELSE 0
        db1    == IF k \notin DOMAIN db THEN SetKey(db, k, KeyUD_Create) ELSE db
        _key   == db1[k]
        wake   == /\ (_key.limit >= 0) /\ (_key.count >= _key.limit)
                  /\ ((_limit < 0) \/ (_key.count < _limit))
    IN  [db  |-> SetKey(db1, k, [_key EXCEPT !.limit = _limit]),
         ret |-> IF wake THEN <<True>> ELSE <<>>]

\* mutant of keepercall_limit: an absent key gets no KeyUD
keepercall_limit_no_create(db, args) ==
    LET k      == args[1]
        _limit == IF Len(args) >= 2 THEN args[2] ELSE -1
    IN  IF k \notin DOMAIN db
        THEN [db |-> db, ret |-> <<>>]
        ELSE LET _key == db[k]
                 wake == /\ (_key.limit >= 0) /\ (_key.count >= _key.limit)
                         /\ ((_limit < 0) \/ (_key.count < _limit))
             IN  [db  |-> SetKey(db, k, [_key EXCEPT !.limit = _limit]),
                  ret |-> IF wake THEN <<True>> ELSE <<>>]

\* keepercall_limit: args are <<key>> (limit absent: -1) or <<key, n>>
keepercall_limit(db, args) ==
    LET k      == args[1]
        _limit == IF Len(args) >= 2 THEN args[2] ELSE -1
        db1    == IF k \notin DOMAIN db THEN SetKey(db, k, KeyUD_Create) ELSE db
        _key   == db1[k]
        wake   == /\ (_key.limit >= 0) /\ (_key.count >= _key.limit)
                  /\ ((_limit < 0) \/ (_key.count < _limit))
    IN  [db  |-> SetKey(db1, k, [_key EXCEPT !.limit = _limit]),
         ret |-> IF wake THEN <<True>> ELSE <<>>]

\* mutant of keepercall_set: the values are pushed after what the key holds
keepercall_set_append(db, args) ==
    LET k    == args[1]
        vals == SubSeq(args, 2, Len(args))
    IN  IF Len(args) = 1
        THEN IF k \in DOMAIN db
             THEN IF db[k].limit < 0
                  THEN [db |-> RemoveKey(db, k), ret |-> <<>>]
                  ELSE [db  |-> SetKey(db, k, KeyUD_reset(db[k])),
                        ret |-> IF (db[k].limit > 0) /\ (db[k].count >= db[k].limit)
                                THEN <<True>> ELSE <<>>]
             ELSE [db |-> db, ret |-> <<>>]
        ELSE IF k \notin DOMAIN db
             THEN [db |-> SetKey(db, k, KeyUD_push(KeyUD_Create, vals)), ret |-> <<>>]
             ELSE [db  |-> SetKey(db, k, KeyUD_push(db[k], vals)),
                   ret |-> IF /\ (db[k].limit > 0) /\ (db[k].count >= db[k].limit)
                              /\ (Len(args) - 1 < db[k].limit)
                           THEN <<True>> ELSE <<>>]

\* mutant of keepercall_set: set(k) removes the KeyUD whatever its limit
keepercall_set_remove(db, args) ==
    LET k    == args[1]
        vals == SubSeq(args, 2, Len(args))
    IN  IF Len(args) = 1
        THEN IF k \in DOMAIN db
             THEN [db  |-> RemoveKey(db, k),
                   ret |-> IF (db[k].limit > 0) /\ (db[k].count >= db[k].limit)
                           THEN <<True>> ELSE <<>>]
             ELSE [db |-> db, ret |-> <<>>]
        ELSE IF k \notin DOMAIN db
             THEN [db |-> SetKey(db, k, KeyUD_push(KeyUD_Create, vals)), ret |-> <<>>]
             ELSE [db  |-> SetKey(db, k, KeyUD_push(KeyUD_reset(db[k]), vals)),
                   ret |-> IF /\ (db[k].limit > 0) /\ (db[k].count >= db[k].limit)
                              /\ (Len(args) - 1 < db[k].limit)
                           THEN <<True>> ELSE <<>>]

\* mutant of keepercall_set: the writers are woken whenever the key was full
keepercall_set_wake(db, args) ==
    LET k    == args[1]
        vals == SubSeq(args, 2, Len(args))
    IN  IF Len(args) = 1
        THEN IF k \in DOMAIN db
             THEN IF db[k].limit < 0
                  THEN [db |-> RemoveKey(db, k), ret |-> <<>>]
                  ELSE [db  |-> SetKey(db, k, KeyUD_reset(db[k])),
                        ret |-> IF (db[k].limit > 0) /\ (db[k].count >= db[k].limit)
                                THEN <<True>> ELSE <<>>]
             ELSE [db |-> db, ret |-> <<>>]
        ELSE IF k \notin DOMAIN db
             THEN [db  |-> SetKey(db, k, KeyUD_push(KeyUD_Create, vals)),
                   ret |-> <<>>]
             ELSE [db  |-> SetKey(db, k, KeyUD_push(KeyUD_reset(db[k]), vals)),
                   ret |-> IF (db[k].limit > 0) /\ (db[k].count >= db[k].limit)
                           THEN <<True>> ELSE <<>>]

\* mutant of keepercall_set: a set of values on an absent key wakes the writers
keepercall_set_absent(db, args) ==
    LET k    == args[1]
        vals == SubSeq(args, 2, Len(args))
    IN  IF Len(args) = 1
        THEN IF k \in DOMAIN db
             THEN IF db[k].limit < 0
                  THEN [db |-> RemoveKey(db, k), ret |-> <<>>]
                  ELSE [db  |-> SetKey(db, k, KeyUD_reset(db[k])),
                        ret |-> IF (db[k].limit > 0) /\ (db[k].count >= db[k].limit)
                                THEN <<True>> ELSE <<>>]
             ELSE [db |-> db, ret |-> <<>>]
        ELSE LET _count == Len(args) - 1
             IN  IF k \notin DOMAIN db
                 THEN [db  |-> SetKey(db, k, KeyUD_push(KeyUD_Create, vals)),
                       ret |-> <<True>>]
                 ELSE [db  |-> SetKey(db, k, KeyUD_push(KeyUD_reset(db[k]), vals)),
                       ret |-> IF /\ (db[k].limit > 0) /\ (db[k].count >= db[k].limit)
                                  /\ (_count < db[k].limit)
                               THEN <<True>> ELSE <<>>]

\* keepercall_set: args are <<key>> or <<key, val...>>
keepercall_set(db, args) ==
    LET k    == args[1]
        vals == SubSeq(args, 2, Len(args))
    IN  IF Len(args) = 1
        THEN IF k \in DOMAIN db
             THEN IF db[k].limit < 0
                  THEN [db |-> RemoveKey(db, k), ret |-> <<>>]
                  ELSE [db  |-> SetKey(db, k, KeyUD_reset(db[k])),
                        ret |-> IF (db[k].limit > 0) /\ (db[k].count >= db[k].limit)
                                THEN <<True>> ELSE <<>>]
             ELSE [db |-> db, ret |-> <<>>]
        ELSE LET _count == Len(args) - 1
             IN  IF k \notin DOMAIN db
                 THEN [db  |-> SetKey(db, k, KeyUD_push(KeyUD_Create, vals)),
                       ret |-> <<>>]
                 ELSE [db  |-> SetKey(db, k, KeyUD_push(KeyUD_reset(db[k]), vals)),
                       ret |-> IF /\ (db[k].limit > 0) /\ (db[k].count >= db[k].limit)
                                  /\ (_count < db[k].limit)
                               THEN <<True>> ELSE <<>>]

\* mutant of keepercall_get: the values are popped off the fifo
keepercall_get_pop(db, args) ==
    LET k      == args[1]
        _count == IF Len(args) = 2 THEN args[2] ELSE 1
    IN  IF k \in DOMAIN db /\ db[k].count > 0
        THEN LET p == KeyUD_pop(db[k], Min(_count, db[k].count))
             IN  [db |-> SetKey(db, k, p.key), ret |-> p.vals]
        ELSE [db |-> db, ret |-> <<>>]

\* keepercall_get: args are <<key>> or <<key, count>>
keepercall_get(db, args) ==
    LET k      == args[1]
        _count == IF Len(args) = 2 THEN args[2] ELSE 1
    IN  IF k \in DOMAIN db /\ db[k].count > 0
        THEN [db |-> db, ret |-> KeyUD_peek(db[k], Min(_count, db[k].count))]
        ELSE [db |-> db, ret |-> <<>>]

\* a Lua table handed to the caller is modelled by this value in ret, and the
\* table itself is given in tbl
Table == "table"

\* mutant of keepercall_count: the table leaves out the keys that hold nothing
keepercall_count_nonempty(db, args) ==
    IF Len(args) = 1
    THEN [db |-> db, tbl |-> <<>>,
          ret |-> IF args[1] \notin DOMAIN db THEN <<Nil>>
                  ELSE <<ToString(db[args[1]].count)>>]
    ELSE LET known == IF Len(args) = 0 THEN DOMAIN db
                      ELSE {args[i] : i \in 1..Len(args)} \cap DOMAIN db
         IN  [db |-> db, ret |-> <<Table>>,
              tbl |-> [k \in {x \in known : db[x].count > 0} |-> db[k].count]]

\* keepercall_count: no key gives the table of the counts of all known keys,
\* one key its count (nil when the key is unknown), several keys the table of
\* the counts of those that are known
keepercall_count(db, args) ==
    IF Len(args) = 1
    THEN [db |-> db, tbl |-> <<>>,
          ret |-> IF args[1] \notin DOMAIN db THEN <<Nil>>
                  ELSE <<ToString(db[args[1]].count)>>]
    ELSE LET known == IF Len(args) = 0 THEN DOMAIN db
                      ELSE {args[i] : i \in 1..Len(args)} \cap DOMAIN db
         IN  [db |-> db, ret |-> <<Table>>, tbl |-> [k \in known |-> db[k].count]]

\* keeper_push_linda_storage: the table key -> {first, count, limit, fifo}
keeper_push_linda_storage(db) == [db |-> db, ret |-> <<Table>>, tbl |-> db]

\* ------------------------------------------------------------ Linda layer
\* CancelRequest
None == "None"
Soft == "Soft"
\* kCancelError, the sentinel returned on soft cancellation
CancelError == "cancel_error"
Timeout == "timeout"

\* keeper_call: the arguments are copied into the keeper, the primitive runs,
\* what it returns is moved to the caller
keeper_call(db, func_, args) ==
    CASE func_ = "clear"           -> keepercall_clear(db)
      [] func_ = "send"            -> keepercall_send(db, args)
      [] func_ = "receive"         -> keepercall_receive(db, args)
      [] func_ = "receive_batched" -> keepercall_receive_batched(db, args)
      [] func_ = "limit"           -> keepercall_limit(db, args)
      [] func_ = "set"             -> keepercall_set(db, args)
      [] func_ = "count"           -> keepercall_count(db, args)
      [] func_ = "get"             -> keepercall_get(db, args)

\* Each Linda call gives the KeysDB after it, the values it returns to the
\* caller and the condition variables it broadcast on.

\* mutant of linda_send: a send that succeeds notifies nobody
linda_send_silent(db, cancel, args) ==
    IF cancel # None
    THEN [db |-> db, ret |-> <<CancelError>>, bcast |-> {}]
    ELSE LET _pushed == keeper_call(db, "send", args)
             _ret    == (_pushed.ret[1] = True)
         IN  IF _ret
             THEN [db |-> _pushed.db, ret |-> <<True>>, bcast |-> {}]
             ELSE [db |-> _pushed.db, ret |-> <<False>>, bcast |-> {}]

\* linda_send with a timeout of 0, called outside a lane: one pass of the loop
linda_send(db, cancel, args) ==
    IF cancel # None
    THEN [db |-> db, ret |-> <<CancelError>>, bcast |-> {}]
    ELSE LET _pushed == keeper_call(db, "send", args)
             _ret    == (_pushed.ret[1] = True)
         IN  IF _ret
             THEN [db |-> _pushed.db, ret |-> <<True>>, bcast |-> {"writeHappened"}]
             ELSE [db |-> _pushed.db, ret |-> <<False>>, bcast |-> {}]

\* linda_receive with a timeout of 0, called outside a lane: one pass of the
\* loop; func_ is the selected keeper receive
linda_receive(db, cancel, func_, args) ==
    IF cancel # None
    THEN [db |-> db, ret |-> <<Nil, CancelError>>, bcast |-> {}]
    ELSE LET _pushed == keeper_call(db, func_, args)
         IN  IF Len(_pushed.ret) > 0
             THEN [db |-> _pushed.db, ret |-> _pushed.ret, bcast |-> {"readHappened"}]
             ELSE [db |-> _pushed.db, ret |-> <<Nil, Timeout>>, bcast |-> {}]

\* mutant of linda_set: the keeper is called whatever the Linda's flag is
linda_set_uncancelled(db, cancel, args) ==
    LET _pushed    == keeper_call(db, "set", args)
        _has_value == Len(args) > 1
    IN  [db    |-> _pushed.db,
         ret   |-> _pushed.ret,
         bcast |-> (IF _has_value THEN {"writeHappened"} ELSE {})
                   \cup (IF Len(_pushed.ret) = 1 THEN {"readHappened"} ELSE {})]

\* linda_set
linda_set(db, cancel, args) ==
    IF cancel = None
    THEN LET _pushed    == keeper_call(db, "set", args)
             _has_value == Len(args) > 1
         IN  [db    |-> _pushed.db,
              ret   |-> _pushed.ret,
              bcast |-> (IF _has_value THEN {"writeHappened"} ELSE {})
                        \cup (IF Len(_pushed.ret) = 1 THEN {"readHappened"} ELSE {})]
    ELSE [db |-> db, ret |-> <<CancelError>>, bcast |-> {}]

\* a Lua error raised to the caller
Error == "error"

\* mutant of linda_limit: the senders are never notified
linda_limit_silent(db, cancel, args) ==
    IF Len(args) >= 2 /\ args[2] < 0
    THEN [db |-> db, ret |-> <<Error>>, bcast |-> {}]
    ELSE IF cancel = None
    THEN LET _pushed == keeper_call(db, "limit", args)
         IN  [db |-> _pushed.db, ret |-> _pushed.ret, bcast |-> {}]
    ELSE [db |-> db, ret |-> <<CancelError>>, bcast |-> {}]

\* linda_limit: a limit < 0 is an argument error
linda_limit(db, cancel, args) ==
    IF Len(args) >= 2 /\ args[2] < 0
    THEN [db |-> db, ret |-> <<Error>>, bcast |-> {}]
    ELSE IF cancel = None
    THEN LET _pushed == keeper_call(db, "limit", args)
         IN  [db    |-> _pushed.db,
              ret   |-> _pushed.ret,
              bcast |-> IF Len(_pushed.ret) = 1 THEN {"readHappened"} ELSE {}]
    ELSE [db |-> db, ret |-> <<CancelError>>, bcast |-> {}]

\* linda_count
linda_count(db, args) ==
    LET _pushed == keeper_call(db, "count", args)
    IN  [db |-> _pushed.db, ret |-> _pushed.ret, bcast |-> {}, tbl |-> _pushed.tbl]

\* linda_get
linda_get(db, cancel, args) ==
    IF cancel = None
    THEN LET _pushed == keeper_call(db, "get", args)
         IN  [db |-> _pushed.db, ret |-> _pushed.ret, bcast |-> {}]
    ELSE [db |-> db, ret |-> <<CancelError>>, bcast |-> {}]

\* linda_dump
linda_dump(db) ==
    LET _pushed == keeper_push_linda_storage(db)
    IN  [db |-> _pushed.db, ret |-> _pushed.ret, bcast |-> {}, tbl |-> _pushed.tbl]

\* mutant of linda_cancel: "none" leaves the flag as the call first set it
linda_cancel_keep(args) ==
    LET _who == IF Len(args) = 0 THEN "both" ELSE args[1]
    IN  CASE _who = "both"  -> [cancel |-> Soft, ret |-> <<>>,
                                bcast |-> {"writeHappened", "readHappened"}]
          [] _who = "none"  -> [cancel |-> Soft, ret |-> <<>>, bcast |-> {}]
          [] _who = "read"  -> [cancel |-> Soft, ret |-> <<>>, bcast |-> {"writeHappened"}]
          [] _who = "write" -> [cancel |-> Soft, ret |-> <<>>, bcast |-> {"readHappened"}]
          [] OTHER          -> [cancel |-> Soft, ret |-> <<Error>>, bcast |-> {}]

\* linda_cancel: the flag the call leaves, what it returns and the condition
\* variables it broadcast on; an absent mode is "both", an unknown mode is an
\* error raised after the flag was set
linda_cancel(args) ==
    LET _who == IF Len(args) = 0 THEN "both" ELSE args[1]
    IN  CASE _who = "both"  -> [cancel |-> Soft, ret |-> <<>>,
                                bcast |-> {"writeHappened", "readHappened"}]
          [] _who = "none"  -> [cancel |-> None, ret |-> <<>>, bcast |-> {}]
          [] _who = "read"  -> [cancel |-> Soft, ret |-> <<>>, bcast |-> {"writeHappened"}]
          [] _who = "write" -> [cancel |-> Soft, ret |-> <<>>, bcast |-> {"readHappened"}]
          [] OTHER          -> [cancel |-> Soft, ret |-> <<Error>>, bcast |-> {}]

\* the Linda is destroyed: keeper_call(clear)
linda_clear(db) ==
    LET _pushed == keeper_call(db, "clear", <<>>)
    IN  [db |-> _pushed.db, ret |-> <<>>, bcast |-> {}]

\* ---------------------------------------------------------------- history
\* the key is limited and holds as many values as its limit
AtLimit(db, k) == k \in DOMAIN db /\ db[k].limit >= 0 /\ db[k].count = db[k].limit

\* Armed: a key enters when it is AtLimit after a call; it leaves when a
\* receive removes a value from it, and when limit or clear restate its limit.
Armed(old, db, db2, op, args) ==
    {k \in Keys :
        \/ AtLimit(db2, k)
        \/ /\ k \in old
           /\ ~ (op \in {"receive", "receive_batched"}
                   /\ k \in DOMAIN db /\ db2[k].count < db[k].count)
           /\ ~ (op = "limit" /\ args[1] = k)
           /\ op # "clear"}

\* the mutex of a Keeper that no thread has locked
Free == "free"

\* Keepers::initialize with one keeper: the Keeper is in keeper_array, its Lua
\* state is created, its mutex is free; isClosing is clear; gc_threshold is
\* negative: the keeper calls do no GC pacing
Keepers_initialize ==
    [isClosing |-> FALSE, keeper_array |-> "Keeper", L |-> "KeeperState", mutex |-> Free,
     gc_threshold |-> -1]

\* a worker that is in no Linda call
NoCall == [op |-> "none", args |-> <<>>]

\* --------------------------------------------------- sequential Linda calls
\* a push of n more values stays within the indices of the model
Room(db, k, n) ==
    IF k \in DOMAIN db THEN db[k].first + db[k].count - 1 + n <= MaxIdx ELSE n <= MaxIdx

Done(op, args, r) ==
    /\ KeysDB' = r.db
    /\ last' = [op |-> op, args |-> args, ret |-> r.ret, bcast |-> r.bcast,
                tbl |-> IF "tbl" \in DOMAIN r THEN r.tbl ELSE <<>>,
                flag |-> cancelRequest]
    /\ armed' = Armed(armed, KeysDB, r.db, op, args)
    /\ UNCHANGED <<cancelRequest, pc, call, sent, received, keepers, lanes, lindas, LindasDB>>

\* the calls a program can make on the keys of K
Send(K) ==
    \E k \in K, vals \in SeqsOf(Values, 1, MaxN) :
        /\ Room(KeysDB, k, Len(vals))
        /\ Done("send", <<k>> \o vals, linda_send(KeysDB, cancelRequest, <<k>> \o vals))

Receive(K) ==
    \E keys \in DistinctSeqsOf(K) :
        Done("receive", keys, linda_receive(KeysDB, cancelRequest, "receive", keys))

ReceiveBatched(K) ==
    \E k \in K, min \in 1..MaxN :
        \/ Done("receive_batched", <<k, min>>,
                linda_receive(KeysDB, cancelRequest, "receive_batched", <<k, min>>))
        \/ \E max \in min..(MaxN + 1) :
              Done("receive_batched", <<k, min, max>>,
                   linda_receive(KeysDB, cancelRequest, "receive_batched", <<k, min, max>>))

Set(K) ==
    \E k \in K, vals \in SeqsOf(Values, 0, MaxN) :
        Done("set", <<k>> \o vals, linda_set(KeysDB, cancelRequest, <<k>> \o vals))

Limit(K) ==
    \E k \in K :
        \/ Done("limit", <<k>>, linda_limit(KeysDB, cancelRequest, <<k>>))
        \/ \E n \in -1..MaxLimit :
              Done("limit", <<k, n>>, linda_limit(KeysDB, cancelRequest, <<k, n>>))

Count(K) ==
    \E keys \in SeqsOf(K, 0, MaxKeys) : Done("count", keys, linda_count(KeysDB, keys))

Get(K) ==
    \E k \in K :
        \/ Done("get", <<k>>, linda_get(KeysDB, cancelRequest, <<k>>))
        \/ \E c \in 1..(MaxN + 1) :
              Done("get", <<k, c>>, linda_get(KeysDB, cancelRequest, <<k, c>>))

Dump == Done("dump", <<>>, linda_dump(KeysDB))

\* the modes given to linda:cancel(); "bogus" is no mode that it knows
Modes == {"both", "none", "read", "write", "bogus"}

\* linda:cancel() called while no other call is in progress
CancelWith(args) ==
    LET r == linda_cancel(args)
    IN  /\ cancelRequest' = r.cancel
        /\ last' = [op |-> "cancel", args |-> args, ret |-> r.ret, bcast |-> r.bcast,
                    tbl |-> <<>>, flag |-> cancelRequest]
        /\ UNCHANGED <<KeysDB, armed, pc, call, sent, received, keepers, lanes, lindas, LindasDB>>

Cancel == CancelWith(<<>>) \/ \E m \in Modes : CancelWith(<<m>>)

Clear == Done("clear", <<>>, linda_clear(KeysDB))

Init ==
    /\ KeysDB = [j \in {} |-> KeyUD_Create]
    /\ cancelRequest = None
    /\ last = [op |-> "init", args |-> <<>>, ret |-> <<>>, bcast |-> {}, tbl |-> <<>>,
               flag |-> None]
    /\ armed = {}
    /\ pc = [w \in Threads |-> "idle"]
    /\ call = [w \in Threads |-> NoCall]
    /\ sent = <<>>
    /\ received = <<>>
    /\ keepers = Keepers_initialize
    /\ lanes = [w \in Threads |-> None]
    /\ lindas = <<>>
    /\ LindasDB = <<>>

\* Spec: every call, on one key
Next ==
    \/ Send(OneKey)
    \/ Receive(OneKey)
    \/ ReceiveBatched(OneKey)
    \/ Set(OneKey)
    \/ Limit(OneKey)
    \/ Count(OneKey)
    \/ Get(OneKey)
    \/ Dump
    \/ Clear

Spec == Init /\ [][Next]_vars

\* SpecCancel: every call and linda:cancel(), on one key
NextCancel ==
    \/ Send(OneKey)
    \/ Receive(OneKey)
    \/ ReceiveBatched(OneKey)
    \/ Set(OneKey)
    \/ Limit(OneKey)
    \/ Count(OneKey)
    \/ Get(OneKey)
    \/ Dump
    \/ Cancel

SpecCancel == Init /\ [][NextCancel]_vars

\* SpecKeys: send, receive and set on two keys
NextKeys ==
    \/ Send(Keys)
    \/ Receive(Keys)
    \/ Set(Keys)
    \/ Count(Keys)

SpecKeys == Init /\ [][NextKeys]_vars

\* ----------------------------------------------- concurrent calls, one key
\* Linda::ProtectedCall locks the keeper's mutex before the call and unlocks
\* it after; inside the call the mutex is unlocked only by wait_until.  What a
\* worker does from the lock, or from the return of wait_until, up to the
\* unlock or the next wait_until is therefore one step.

\* the condition variable a blocked call waits on: a send that found no room
\* waits on readHappened, a receive that found no data on writeHappened
WaitsOn(op) == IF op = "send" THEN "readHappened" ELSE "writeHappened"

\* notify_all on the condition variables of bcast: every worker waiting on
\* one of them is notified
notify_all(p, bcast) ==
    [w \in DOMAIN p |->
        IF p[w] = "waiting" /\ WaitsOn(call[w].op) \in bcast THEN "notified" ELSE p[w]]

\* the call is over: releaseKeeper unlocks the mutex
releaseKeeper(w, p) ==
    /\ pc' = [p EXCEPT ![w] = "idle"]
    /\ call' = [call EXCEPT ![w] = NoCall]

\* the call c found no room or no data: it returns at once when it was given
\* a timeout and the timeout is reached, else it waits on its condition
\* variable, which unlocks the mutex
TimeoutOrWait(w, c) ==
    \/ releaseKeeper(w, pc)
    \/ /\ pc' = [pc EXCEPT ![w] = "waiting"]
       /\ call' = [call EXCEPT ![w] = c]

\* one pass of the loop of linda_send for the call c, and what follows it
SendPass(w, c) ==
    LET r == linda_send(KeysDB, cancelRequest, c.args)
    IN  /\ Room(KeysDB, c.args[1], Len(c.args) - 1)
        /\ Len(sent) + Len(c.args) - 1 <= MaxSent
        /\ KeysDB' = r.db
        /\ UNCHANGED <<cancelRequest, last, armed, received, keepers, lanes, lindas, LindasDB>>
        /\ IF r.ret = <<True>>
           THEN /\ sent' = sent \o SubSeq(c.args, 2, Len(c.args))
                /\ releaseKeeper(w, notify_all(pc, r.bcast))
           ELSE /\ UNCHANGED sent
                /\ TimeoutOrWait(w, c)

\* one pass of the loop of linda_receive for the call c, and what follows it
ReceivePass(w, c) ==
    LET r == linda_receive(KeysDB, cancelRequest, c.op, c.args)
    IN  /\ KeysDB' = r.db
        /\ UNCHANGED <<cancelRequest, last, armed, sent, keepers, lanes, lindas, LindasDB>>
        /\ IF "readHappened" \in r.bcast
           THEN /\ received' = received \o SubSeq(r.ret, 2, Len(r.ret))
                /\ releaseKeeper(w, notify_all(pc, r.bcast))
           ELSE /\ UNCHANGED received
                /\ TimeoutOrWait(w, c)

\* a worker calls linda:send(), with or without a timeout
WorkerSend(w) ==
    /\ pc[w] = "idle"
    /\ \E k \in OneKey, vals \in SeqsOf(Values, 1, MaxN) :
          SendPass(w, [op |-> "send", args |-> <<k>> \o vals])

\* a worker calls linda:receive() on the key
WorkerReceive(w) ==
    /\ pc[w] = "idle"
    /\ \E k \in OneKey :
          ReceivePass(w, [op |-> "receive", args |-> <<k>>])

\* a worker calls linda:receive(linda.batched, key, min [, max])
WorkerReceiveBatched(w) ==
    /\ pc[w] = "idle"
    /\ \E k \in OneKey, min \in 1..MaxN :
          \/ ReceivePass(w, [op |-> "receive_batched", args |-> <<k, min>>])
          \/ \E max \in (min + 1)..(MaxN + 1) :
                ReceivePass(w, [op |-> "receive_batched", args |-> <<k, min, max>>])

\* a worker calls linda:limit()
LimitCall(w, args) ==
    LET r == linda_limit(KeysDB, cancelRequest, args)
    IN  /\ KeysDB' = r.db
        /\ releaseKeeper(w, notify_all(pc, r.bcast))
        /\ UNCHANGED <<cancelRequest, last, armed, sent, received, keepers, lanes, lindas, LindasDB>>

WorkerLimit(w) ==
    /\ pc[w] = "idle"
    /\ \E k \in OneKey :
          \/ LimitCall(w, <<k>>)
          \/ \E n \in 0..MaxLimit : LimitCall(w, <<k, n>>)

\* wait_until returns with the mutex locked.  no_timeout (the worker was
\* notified, or woke up spuriously): _try_again is true and the loop makes
\* another pass.  timeout (calls given a timeout): _try_again is false and
\* the call returns without calling the keeper.
wait_until(w) ==
    /\ pc[w] \in {"waiting", "notified"}
    /\ \/ /\ call[w].op = "send"
          /\ SendPass(w, call[w])
       \/ /\ call[w].op \in {"receive", "receive_batched"}
          /\ ReceivePass(w, call[w])
       \/ /\ releaseKeeper(w, pc)
          /\ UNCHANGED <<KeysDB, cancelRequest, last, armed, sent, received, keepers, lanes, lindas, LindasDB>>

NextC ==
    \E w \in Workers :
        \/ WorkerSend(w)
        \/ WorkerReceive(w)
        \/ WorkerReceiveBatched(w)
        \/ WorkerLimit(w)
        \/ wait_until(w)

SpecC == Init /\ [][NextC]_vars

\* ------------------------------------- concurrent calls, step by step
\* The steps of a send or receive: ProtectedCall locks the mutex ("top"), the
\* top of the loop samples the cancel request ("probe"), the keeper primitive
\* is called, and the call returns ("idle") or waits ("waiting", then
\* "notified").  linda_cancel locks nothing: its steps fall anywhere.

\* timeouts: 0, and none (the deadline is time_point::max())
Zero == "zero"
Infinite == "infinite"

\* Keeper::mutex is locked by the worker that is between the lock and the
\* wait or the unlock
MutexFree == \A w \in Workers : pc[w] \notin {"top", "probe"}

\* the value that the workers send
OneValue == {"x"}

\* the value that the workers set
SetValue == {"y"}

\* the number of values of the sends that are in progress
RECURSIVE Pending(_)
Pending(ws) ==
    IF ws = {} THEN 0
    ELSE LET w == CHOOSE x \in ws : TRUE
         IN  (IF pc[w] # "idle" /\ call[w].op = "send" THEN Len(call[w].args) - 1 ELSE 0)
             + Pending(ws \ {w})

\* Linda::ProtectedCall: acquireKeeper locks the mutex
acquireKeeper(w, op, args, until) ==
    /\ pc[w] = "idle"
    /\ MutexFree
    /\ pc' = [pc EXCEPT ![w] = "top"]
    /\ call' = [call EXCEPT ![w] = [op |-> op, args |-> args, until |-> until]]
    /\ UNCHANGED <<KeysDB, cancelRequest, last, armed, sent, received, keepers, lanes, lindas, LindasDB>>

\* a worker calls linda:send() with timeout 0 or with none; the sends in
\* progress stay within the indices of the model
BeginSend(w) ==
    \E k \in OneKey, vals \in SeqsOf(OneValue, 1, MaxN), until \in {Zero, Infinite} :
        /\ Room(KeysDB, k, Pending(Workers) + Len(vals))
        /\ acquireKeeper(w, "send", <<k>> \o vals, until)

\* a worker calls linda:receive() with timeout 0 or with none
BeginReceive(w) ==
    \E k \in OneKey, until \in {Zero, Infinite} : acquireKeeper(w, "receive", <<k>>, until)

\* the call returns ret: releaseKeeper unlocks the mutex; of a call that has
\* returned, what it was and what it returned are kept
Return(w, ret, p) ==
    /\ pc' = [p EXCEPT ![w] = "idle"]
    /\ call' = [call EXCEPT ![w] = [op |-> call[w].op, ret |-> ret]]

\* what one pass of the loop gives when the cancel request it sampled is cancel
OnePass(db, cancel, c) ==
    IF c.op = "send" THEN linda_send(db, cancel, c.args)
    ELSE linda_receive(db, cancel, c.op, c.args)

\* the top of the loop: the cancel request is sampled; a cancelled call
\* leaves the loop and returns the cancel sentinel
LoopTop(w) ==
    /\ pc[w] = "top"
    /\ IF cancelRequest # None
       THEN Return(w, OnePass(KeysDB, cancelRequest, call[w]).ret, pc)
       ELSE pc' = [pc EXCEPT ![w] = "probe"] /\ UNCHANGED call
    /\ UNCHANGED <<KeysDB, cancelRequest, last, armed, sent, received, keepers, lanes, lindas, LindasDB>>

\* mutant of Probe: no instant timeout, a call that found nothing always waits
Probe_no_instant_timeout(w) ==
    /\ pc[w] = "probe"
    /\ LET r  == OnePass(KeysDB, None, call[w])
           ok == r.ret \notin {<<False>>, <<Nil, Timeout>>}
       IN  /\ KeysDB' = r.db
           /\ IF ok
              THEN Return(w, r.ret, notify_all(pc, r.bcast))
              ELSE pc' = [pc EXCEPT ![w] = "waiting"] /\ UNCHANGED call
    /\ UNCHANGED <<cancelRequest, last, armed, sent, received, keepers, lanes, lindas, LindasDB>>

\* the rest of the pass, the sampled cancel request being None: keeper_call;
\* on success notify_all and return; else return at once when the deadline is
\* reached (timeout 0), or wait on the condition variable
Probe(w) ==
    /\ pc[w] = "probe"
    /\ LET r  == OnePass(KeysDB, None, call[w])
           ok == r.ret \notin {<<False>>, <<Nil, Timeout>>}
       IN  /\ KeysDB' = r.db
           /\ IF ok \/ call[w].until = Zero
              THEN Return(w, r.ret, notify_all(pc, r.bcast))
              ELSE pc' = [pc EXCEPT ![w] = "waiting"] /\ UNCHANGED call
    /\ UNCHANGED <<cancelRequest, last, armed, sent, received, keepers, lanes, lindas, LindasDB>>

\* wait_until returns to a worker that was notified: the mutex is locked again
\* and the loop makes another pass
Wake(w) ==
    /\ pc[w] = "notified"
    /\ MutexFree
    /\ pc' = [pc EXCEPT ![w] = "top"]
    /\ UNCHANGED <<KeysDB, cancelRequest, last, armed, call, sent, received, keepers, lanes, lindas, LindasDB>>

\* wait_until returns to a worker that nobody notified: a spurious wakeup
SpuriousWake(w) ==
    /\ pc[w] = "waiting"
    /\ MutexFree
    /\ pc' = [pc EXCEPT ![w] = "top"]
    /\ UNCHANGED <<KeysDB, cancelRequest, last, armed, call, sent, received, keepers, lanes, lindas, LindasDB>>

\* a worker calls linda:limit() or linda:set(): the whole call, under the mutex
Whole(w, op, args, r) ==
    /\ pc[w] = "idle"
    /\ MutexFree
    /\ KeysDB' = r.db
    /\ pc' = notify_all(pc, r.bcast)
    /\ call' = [call EXCEPT ![w] = [op |-> op, ret |-> r.ret]]
    /\ UNCHANGED <<cancelRequest, last, armed, sent, received, keepers, lanes, lindas, LindasDB>>

WholeLimit(w) ==
    \E k \in OneKey :
        \/ Whole(w, "limit", <<k>>, linda_limit(KeysDB, cancelRequest, <<k>>))
        \/ \E n \in 0..MaxLimit :
              Whole(w, "limit", <<k, n>>, linda_limit(KeysDB, cancelRequest, <<k, n>>))

WholeSet(w) ==
    \E k \in OneKey, vals \in SeqsOf(SetValue, 0, 1) :
        Whole(w, "set", <<k>> \o vals, linda_set(KeysDB, cancelRequest, <<k>> \o vals))

\* the modes that the main thread cancels with: those that wake the receivers,
\* and the reset
ReadModes == {"both", "read", "none"}

\* linda_cancel, first step: the Linda's cancel request is set to Soft
CancelBegin ==
    /\ pc[Main] = "idle"
    /\ \E m \in ReadModes :
          call' = [call EXCEPT ![Main] = [op |-> "cancel", args |-> <<m>>]]
    /\ cancelRequest' = Soft
    /\ pc' = [pc EXCEPT ![Main] = "cancel"]
    /\ UNCHANGED <<KeysDB, last, armed, sent, received, keepers, lanes, lindas, LindasDB>>

\* linda_cancel, second step: the mode is looked at
CancelEnd ==
    /\ pc[Main] = "cancel"
    /\ LET r == linda_cancel(call[Main].args)
       IN  /\ cancelRequest' = r.cancel
           /\ pc' = [notify_all(pc, r.bcast) EXCEPT ![Main] = "idle"]
    /\ call' = [call EXCEPT ![Main] = NoCall]
    /\ UNCHANGED <<KeysDB, last, armed, sent, received, keepers, lanes, lindas, LindasDB>>

NextW ==
    \/ \E w \in Workers :
          \/ BeginSend(w)
          \/ BeginReceive(w)
          \/ LoopTop(w)
          \/ Probe(w)
          \/ Wake(w)
          \/ SpuriousWake(w)
          \/ WholeLimit(w)
          \/ WholeSet(w)
    \/ CancelBegin
    \/ CancelEnd

\* a worker that holds the mutex goes on; a notified worker gets the mutex in
\* the end; linda_cancel goes on.  Nothing makes a spurious wakeup happen.
FairW ==
    /\ \A w \in Workers :
          /\ WF_vars(LoopTop(w))
          /\ WF_vars(Probe(w))
          /\ SF_vars(Wake(w))
    /\ WF_vars(CancelEnd)

SpecW == Init /\ [][NextW]_vars /\ FairW

\* ------------------------------------- Linda::ProtectedCall, step by step
\* SpecP: the workers call the Linda while the main thread closes the
\* keepers.  A call is the steps of Linda::ProtectedCall: the keeper is looked
\* up, its mutex is locked, its Lua state is read, the operation runs under
\* lua_pcall (its argument checks, then its body), the mutex is unlocked and
\* the call returns or raises.  Keepers::close locks nothing: its steps fall
\* anywhere.  A thread that uses what close() destroyed is "undefined" from
\* then on: nothing is known of what it does.

\* the Lua values passed as keys: a boolean, a number, a string, a light
\* userdata of the caller, the three reserved light userdata, a table
LuaKeys == {"true", "1", "a", "ud", "kLindaBatched", "kCancelError", "kNilSentinel", "{}"}

\* the UniqueKeys that check_key_types looks for
kKeysToCheck == {"kLindaBatched", "kCancelError", "kNilSentinel"}

\* lua_type_as_enum
lua_type_as_enum(v) ==
    CASE v = "true" -> "BOOLEAN"
      [] v = "1"    -> "NUMBER"
      [] v = "a"    -> "STRING"
      [] v \in {"ud"} \cup kKeysToCheck -> "LIGHTUSERDATA"
      [] OTHER      -> "TABLE"

\* one turn of the loop of check_key_types: "continue", or the error raised.
\* The break that follows the loop over kKeysToCheck leaves the switch, and
\* the statement after the switch raises.
check_key_type(v) ==
    LET t == lua_type_as_enum(v)
    IN  IF t \in {"BOOLEAN", "NUMBER", "STRING"} THEN "continue"
        ELSE IF t = "LIGHTUSERDATA" /\ v \in kKeysToCheck THEN "can't use as a key"
        ELSE "invalid key type"

\* check_key_types over the keys of a call: TRUE when an error is raised
check_key_types(keys) ==
    \E i \in 1..Len(keys) : check_key_type(keys[i]) # "continue"

\* a duration < 0
Negative == "negative"

\* the argument checks at the head of each operation: TRUE when the call
\* raises an argument error
ArgumentError(op, args, until) ==
    CASE op = "send" ->
            \/ until = Negative
            \/ check_key_types(<<args[1]>>)
            \/ Len(args) = 1
      [] op = "receive" ->
            \/ until = Negative
            \/ check_key_types(args)
      [] op = "receive_batched" ->
            \/ until = Negative
            \/ check_key_types(<<args[1]>>)
            \/ args[2] > (IF Len(args) >= 3 THEN args[3] ELSE args[2])
      [] op = "set" -> check_key_types(<<args[1]>>)
      [] op = "get" ->
            \/ (IF Len(args) >= 2 THEN args[2] ELSE 1) < 1
            \/ check_key_types(<<args[1]>>)
      [] op = "limit" ->
            \/ (IF Len(args) >= 2 THEN args[2] ELSE 0) < 0
            \/ check_key_types(<<args[1]>>)
      [] op = "count" -> check_key_types(args)
      [] OTHER -> FALSE

\* mutant of getKeeper: the closing flag is not looked at
getKeeper_ignore_closing(kp) ==
    IF kp.keeper_array = "monostate" THEN "nullptr" ELSE "Keeper"

\* Keepers::getKeeper
getKeeper(kp) ==
    IF kp.isClosing THEN "nullptr"
    ELSE IF kp.keeper_array = "monostate" THEN "nullptr"
    ELSE "Keeper"

\* Linda::whichKeeper: the keeper of the Linda's index
whichKeeper == getKeeper(keepers)

\* what the body of an operation does on the keeper, with the given deadline
\* already passed or never reached
Operation(db, cancel, op, args) ==
    CASE op = "send"            -> linda_send(db, cancel, args)
      [] op = "receive"         -> linda_receive(db, cancel, "receive", args)
      [] op = "receive_batched" -> linda_receive(db, cancel, "receive_batched", args)
      [] op = "set"             -> linda_set(db, cancel, args)
      [] op = "get"             -> linda_get(db, cancel, args)
      [] op = "limit"           -> linda_limit(db, cancel, args)
      [] op = "count"           -> linda_count(db, args)
      [] op = "dump"            -> linda_dump(db)

\* the outcome of a call: how it ended, what it returned, what it broadcast
Outcome(exit, ret, bcast) == [exit |-> exit, ret |-> ret, bcast |-> bcast]

\* the call of worker w returns or raises
Finish(w, rc) ==
    /\ pc' = [pc EXCEPT ![w] = "idle"]
    /\ last' = [op |-> call[w].op, args |-> call[w].args, ret |-> rc.ret,
                bcast |-> rc.bcast, tbl |-> <<>>, flag |-> cancelRequest,
                exit |-> rc.exit, by |-> w, closing |-> call[w].closing]
    /\ call' = [call EXCEPT ![w] = NoCall]

\* the thread used an object that Keepers::close destroyed
Undefined(w) ==
    /\ pc' = [pc EXCEPT ![w] = "undefined"]
    /\ UNCHANGED <<KeysDB, cancelRequest, last, armed, call, sent, received, keepers, lanes, lindas, LindasDB>>

\* the Slots that the calls of SpecP create
MaxSlots == 1

\* the worker of SpecP
Caller == {"w1"}

\* a worker calls an operation of the Linda; no call has ended since
ProtectedCall(w, op, args, until) ==
    /\ pc[w] = "idle"
    /\ args # <<>> /\ args[1] \notin DOMAIN KeysDB => Cardinality(DOMAIN KeysDB) < MaxSlots
    /\ pc' = [pc EXCEPT ![w] = "acquireKeeper"]
    /\ last' = [op |-> "call", args |-> <<>>, ret |-> <<>>, bcast |-> {}, tbl |-> <<>>,
                flag |-> cancelRequest, exit |-> "none", by |-> w,
                closing |-> keepers.isClosing]
    /\ call' = [call EXCEPT ![w] = [op |-> op, args |-> args, until |-> until,
                                    K |-> "nullptr", closing |-> keepers.isClosing,
                                    rc |-> Outcome("none", <<>>, {})]]
    /\ UNCHANGED <<KeysDB, cancelRequest, armed, sent, received, keepers, lanes, lindas, LindasDB>>

\* the durations of the calls that take one
Durations == {Zero, Infinite, Negative}

\* the calls of the workers: every kind of key, with and without values,
\* counts and limits on both sides of what the checks allow
CallSend(w) ==
    \E k \in LuaKeys, vals \in SeqsOf(OneValue, 0, 1), until \in Durations :
        /\ Room(KeysDB, k, Pending(Workers) + Len(vals))
        /\ ProtectedCall(w, "send", <<k>> \o vals, until)

CallReceive(w) ==
    \E k \in LuaKeys, until \in Durations : ProtectedCall(w, "receive", <<k>>, until)

CallReceiveBatched(w) ==
    \E k \in LuaKeys, min \in 0..MaxN, max \in 1..MaxN, until \in {Zero, Infinite} :
        ProtectedCall(w, "receive_batched", <<k, min, max>>, until)

CallSet(w) ==
    \E k \in LuaKeys, vals \in SeqsOf(OneValue, 0, 1) : ProtectedCall(w, "set", <<k>> \o vals, Zero)

CallGet(w) ==
    \E k \in LuaKeys, n \in 0..1 : ProtectedCall(w, "get", <<k, n>>, Zero)

CallLimit(w) ==
    \E k \in LuaKeys, n \in -1..1 : ProtectedCall(w, "limit", <<k, n>>, Zero)

CallCount(w) ==
    \E k \in LuaKeys : ProtectedCall(w, "count", <<k>>, Zero)

CallDump(w) == ProtectedCall(w, "dump", <<>>, Zero)

\* Linda::acquireKeeper: Keeper* _K = whichKeeper()
AcquireWhichKeeper(w) ==
    /\ pc[w] = "acquireKeeper"
    /\ pc' = [pc EXCEPT ![w] = IF whichKeeper = "nullptr" THEN "KL" ELSE "lock"]
    /\ call' = [call EXCEPT ![w].K = whichKeeper]
    /\ UNCHANGED <<KeysDB, cancelRequest, last, armed, sent, received, keepers, lanes, lindas, LindasDB>>

\* Linda::acquireKeeper: _K->mutex.lock()
AcquireLock(w) ==
    /\ pc[w] = "lock"
    /\ IF keepers.keeper_array = "monostate"
       THEN Undefined(w)
       ELSE /\ keepers.mutex = Free
            /\ keepers' = [keepers EXCEPT !.mutex = w]
            /\ pc' = [pc EXCEPT ![w] = "KL"]
            /\ UNCHANGED <<KeysDB, cancelRequest, last, armed, call, sent, received, lanes, lindas, LindasDB>>

\* Linda::ProtectedCall: _KL = _K ? _K->L : nullptr; if (_KL == nullptr) return 0
ReadKL(w) ==
    /\ pc[w] = "KL"
    /\ IF call[w].K = "nullptr"
       THEN /\ Finish(w, Outcome("unavailable", <<>>, {}))
            /\ UNCHANGED <<KeysDB, cancelRequest, armed, sent, received, keepers, lanes, lindas, LindasDB>>
       ELSE IF keepers.keeper_array = "monostate"
       THEN Undefined(w)
       ELSE IF keepers.L = "nullptr"
       THEN /\ Finish(w, Outcome("unavailable", <<>>, {}))
            /\ UNCHANGED <<KeysDB, cancelRequest, armed, sent, received, keepers, lanes, lindas, LindasDB>>
       ELSE /\ pc' = [pc EXCEPT ![w] = "pcall"]
            /\ UNCHANGED <<KeysDB, cancelRequest, last, armed, call, sent, received, keepers, lanes, lindas, LindasDB>>

\* mutant of PCall: the keys are not checked
PCall_unchecked(w) ==
    /\ pc[w] = "pcall"
    /\ pc' = [pc EXCEPT ![w] = "body"]
    /\ UNCHANGED <<KeysDB, cancelRequest, last, armed, call, sent, received, keepers, lanes, lindas, LindasDB>>

\* lua_pcall: the operation starts with its argument checks; an error
\* raised there is caught by lua_pcall
PCall(w) ==
    /\ pc[w] = "pcall"
    /\ IF ArgumentError(call[w].op, call[w].args, call[w].until)
       THEN /\ pc' = [pc EXCEPT ![w] = "release"]
            /\ call' = [call EXCEPT ![w].rc = Outcome("argerror", <<Error>>, {})]
       ELSE /\ pc' = [pc EXCEPT ![w] = "body"]
            /\ call' = call
    /\ UNCHANGED <<KeysDB, cancelRequest, last, armed, sent, received, keepers, lanes, lindas, LindasDB>>

\* the operations whose body tests the keeper it looks up again
TestsKeeper == {"send", "receive", "receive_batched", "dump"}

\* the result of a send or of a receive that got nothing
NothingDone == {<<False>>, <<Nil, Timeout>>}

\* the body of the operation: the keeper is looked up again, the primitive
\* runs (keeper_call can raise: a value that cannot be copied, the GC
\* threshold), and the call goes to its end or waits
Body(w) ==
    /\ pc[w] = "body"
    /\ LET c == call[w]
           r == Operation(KeysDB, cancelRequest, c.op, c.args)
       IN  IF keepers.L # "KeeperState"
           THEN Undefined(w)
           ELSE IF whichKeeper = "nullptr"
           THEN IF c.op \in TestsKeeper
                THEN /\ pc' = [pc EXCEPT ![w] = "release"]
                     /\ call' = [call EXCEPT ![w].rc = Outcome("unavailable", <<>>, {})]
                     /\ UNCHANGED <<KeysDB, cancelRequest, last, armed, sent, received, keepers, lanes, lindas, LindasDB>>
                ELSE Undefined(w)
           ELSE \/ /\ pc' = [pc EXCEPT ![w] = "release"]
                   /\ call' = [call EXCEPT ![w].rc = Outcome("error", <<Error>>, {})]
                   /\ UNCHANGED <<KeysDB, cancelRequest, last, armed, sent, received, keepers, lanes, lindas, LindasDB>>
                \/ /\ r.ret \in NothingDone /\ c.until = Infinite
                   /\ pc' = [pc EXCEPT ![w] = "wait"]
                   /\ keepers' = [keepers EXCEPT !.mutex = Free]
                   /\ UNCHANGED <<KeysDB, cancelRequest, last, armed, call, sent, received, lanes, lindas, LindasDB>>
                \/ /\ ~(r.ret \in NothingDone /\ c.until = Infinite)
                   /\ KeysDB' = r.db
                   /\ pc' = [pc EXCEPT ![w] = "release"]
                   /\ call' = [call EXCEPT ![w].rc = Outcome("done", r.ret, r.bcast)]
                   /\ UNCHANGED <<cancelRequest, last, armed, sent, received, keepers, lanes, lindas, LindasDB>>

\* the wait on the condition variable ends (notified or not): the mutex is
\* locked again and the loop goes round
WaitEnds(w) ==
    /\ pc[w] = "wait"
    /\ IF keepers.keeper_array = "monostate"
       THEN Undefined(w)
       ELSE /\ keepers.mutex = Free
            /\ keepers' = [keepers EXCEPT !.mutex = w]
            /\ pc' = [pc EXCEPT ![w] = "body"]
            /\ UNCHANGED <<KeysDB, cancelRequest, last, armed, call, sent, received, lanes, lindas, LindasDB>>

\* Linda::releaseKeeper, then the result is returned or the error raised
Release(w) ==
    /\ pc[w] = "release"
    /\ IF keepers.keeper_array = "monostate"
       THEN Undefined(w)
       ELSE /\ keepers' = [keepers EXCEPT !.mutex = Free]
            /\ Finish(w, call[w].rc)
            /\ UNCHANGED <<KeysDB, cancelRequest, armed, sent, received, lanes, lindas, LindasDB>>

\* Keepers::close: isClosing.test_and_set; a second call stops here
CloseTestAndSet ==
    /\ pc[Main] = "idle"
    /\ keepers' = [keepers EXCEPT !.isClosing = TRUE]
    /\ pc' = [pc EXCEPT ![Main] = IF keepers.isClosing THEN "idle" ELSE "closeOneKeeper"]
    /\ last' = [op |-> "close", args |-> <<>>, ret |-> <<>>, bcast |-> {}, tbl |-> <<>>,
                flag |-> cancelRequest,
                exit |-> IF keepers.isClosing THEN "again" ELSE "closing",
                by |-> Main, closing |-> keepers.isClosing]
    /\ UNCHANGED <<KeysDB, cancelRequest, armed, call, sent, received, lanes, lindas, LindasDB>>

\* Keepers::close: _closeOneKeeper exchanges Keeper::L for nullptr and closes
\* the Lua state, with what it held
CloseOneKeeper ==
    /\ pc[Main] = "closeOneKeeper"
    /\ keepers' = [keepers EXCEPT !.L = "nullptr"]
    /\ KeysDB' = keepercall_clear(KeysDB).db
    /\ pc' = [pc EXCEPT ![Main] = "emplace"]
    /\ UNCHANGED <<cancelRequest, last, armed, call, sent, received, lanes, lindas, LindasDB>>

\* Keepers::close: keeper_array.emplace<std::monostate>() destroys the Keeper
\* and its mutex
CloseEmplace ==
    /\ pc[Main] = "emplace"
    /\ keepers' = [keepers EXCEPT !.keeper_array = "monostate"]
    /\ pc' = [pc EXCEPT ![Main] = "idle"]
    /\ UNCHANGED <<KeysDB, cancelRequest, last, armed, call, sent, received, lanes, lindas, LindasDB>>

NextP ==
    \/ \E w \in Caller :
          \/ CallSend(w)
          \/ CallReceive(w)
          \/ CallReceiveBatched(w)
          \/ CallSet(w)
          \/ CallGet(w)
          \/ CallLimit(w)
          \/ CallCount(w)
          \/ CallDump(w)
          \/ AcquireWhichKeeper(w)
          \/ AcquireLock(w)
          \/ ReadKL(w)
          \/ PCall(w)
          \/ Body(w)
          \/ WaitEnds(w)
          \/ Release(w)
    \/ CloseTestAndSet
    \/ CloseOneKeeper
    \/ CloseEmplace

SpecP == Init /\ [][NextP]_vars

\* --------------------------------------- the send/receive loop, with deadlines
\* SpecT: the workers are lanes that send and receive with a timeout of 0,
\* with a deadline still to come, or with none, while their lanes and the
\* Linda are cancelled.  The steps are those of SpecW; wait_until returns
\* no_timeout or timeout, which the loop keeps in _try_again.

\* a timeout > 0: the deadline is reached at some point after the call began
Timed == "timed"

\* CancelRequest::Hard
Hard == "Hard"

\* mutant of SampleCancel: the lane is not looked at
SampleCancel_linda_only(w) == cancelRequest

\* the cancel request sampled at the top of the loop: the one of the lane,
\* else the one of the Linda
SampleCancel(w) == IF lanes[w] # None THEN lanes[w] ELSE cancelRequest

\* the switch at the end of linda_send and linda_receive, for a loop left with
\* nothing sent or received: what the call returns, or that it raises
LoopResult(op, _cancel) ==
    CASE _cancel = Soft ->
            [exit |-> "return", ret |-> IF op = "send" THEN <<CancelError>> ELSE <<Nil, CancelError>>]
      [] _cancel = Hard -> [exit |-> "raise", ret |-> <<CancelError>>]
      [] OTHER ->
            [exit |-> "return", ret |-> IF op = "send" THEN <<False>> ELSE <<Nil, Timeout>>]

\* the call returns or raises: releaseKeeper unlocks the mutex; of a call that
\* is over, what it was and how it ended are kept
LoopReturn(w, res, p) ==
    /\ pc' = [p EXCEPT ![w] = "idle"]
    /\ call' = [call EXCEPT ![w] = [op |-> call[w].op, ret |-> res.ret, exit |-> res.exit,
                                    _try_again |-> call[w]._try_again]]

\* a lane calls linda:send() or linda:receive(): acquireKeeper locks the mutex
LoopCall(w, op, args, until) ==
    /\ pc[w] = "idle"
    /\ MutexFree
    /\ pc' = [pc EXCEPT ![w] = "top"]
    /\ call' = [call EXCEPT ![w] = [op |-> op, args |-> args, until |-> until,
                                    _try_again |-> TRUE]]
    /\ UNCHANGED <<KeysDB, cancelRequest, last, armed, sent, received, keepers, lanes, lindas, LindasDB>>

\* the timeouts of the calls
Timeouts == {Zero, Timed, Infinite}

LoopSend(w) ==
    \E k \in OneKey, vals \in SeqsOf(OneValue, 1, 1), until \in Timeouts :
        /\ Room(KeysDB, k, Pending(Workers) + Len(vals))
        /\ LoopCall(w, "send", <<k>> \o vals, until)

LoopReceive(w) ==
    \E k \in OneKey, until \in Timeouts : LoopCall(w, "receive", <<k>>, until)

LoopReceiveBatched(w) ==
    \E k \in OneKey, min \in 1..MaxN :
        LoopCall(w, "receive_batched", <<k, min, MaxN>>, Timed)

\* a worker limits the key to one value: the whole call, under the mutex
LoopLimit(w) ==
    /\ pc[w] = "idle"
    /\ MutexFree
    /\ \E k \in OneKey :
          LET r == linda_limit(KeysDB, cancelRequest, <<k, 1>>)
          IN  KeysDB' = r.db /\ pc' = notify_all(pc, r.bcast)
    /\ UNCHANGED <<cancelRequest, last, armed, call, sent, received, keepers, lanes, lindas, LindasDB>>

\* the top of the loop: the cancel request is sampled; a call that is
\* cancelled, or whose wait timed out, leaves the loop
SampleTop(w) ==
    /\ pc[w] = "top"
    /\ LET _cancel == SampleCancel(w)
       IN  IF ~call[w]._try_again \/ _cancel # None
           THEN LoopReturn(w, LoopResult(call[w].op, _cancel), pc)
           ELSE pc' = [pc EXCEPT ![w] = "probe"] /\ UNCHANGED call
    /\ UNCHANGED <<KeysDB, cancelRequest, last, armed, sent, received, keepers, lanes, lindas, LindasDB>>

\* the rest of the pass: keeper_call; on success notify_all and the loop is
\* left; else the loop is left when the deadline is reached, or the call waits
\* on its condition variable
Attempt(w) ==
    /\ pc[w] = "probe"
    /\ LET r  == OnePass(KeysDB, None, call[w])
           ok == r.ret \notin NothingDone
       IN  /\ KeysDB' = r.db
           /\ \/ /\ ok \/ call[w].until \in {Zero, Timed}
                 /\ LoopReturn(w, [exit |-> "return", ret |-> r.ret], notify_all(pc, r.bcast))
              \/ /\ ~ok /\ call[w].until \in {Timed, Infinite}
                 /\ pc' = [pc EXCEPT ![w] = "waiting"]
                 /\ UNCHANGED call
    /\ UNCHANGED <<cancelRequest, last, armed, sent, received, keepers, lanes, lindas, LindasDB>>

\* mutant of NoTimeout: a send that is woken returns true at once
NoTimeout_success(w) ==
    /\ pc[w] \in {"waiting", "notified"}
    /\ MutexFree
    /\ LoopReturn(w, [exit |-> "return", ret |-> <<True>>], pc)
    /\ UNCHANGED <<KeysDB, cancelRequest, last, armed, sent, received, keepers, lanes, lindas, LindasDB>>

\* wait_until returns no_timeout, to a worker that was notified or to one
\* that was not (a spurious wakeup): the mutex is locked again
NoTimeout(w) ==
    /\ pc[w] \in {"waiting", "notified"}
    /\ MutexFree
    /\ pc' = [pc EXCEPT ![w] = "top"]
    /\ call' = [call EXCEPT ![w]._try_again = TRUE]
    /\ UNCHANGED <<KeysDB, cancelRequest, last, armed, sent, received, keepers, lanes, lindas, LindasDB>>

\* wait_until returns timeout: the deadline was reached; the mutex is locked
\* again
TimedOutWait(w) ==
    /\ pc[w] \in {"waiting", "notified"}
    /\ call[w].until = Timed
    /\ MutexFree
    /\ pc' = [pc EXCEPT ![w] = "top"]
    /\ call' = [call EXCEPT ![w]._try_again = FALSE]
    /\ UNCHANGED <<KeysDB, cancelRequest, last, armed, sent, received, keepers, lanes, lindas, LindasDB>>

\* the lane of a worker is cancelled, softly or not; one lane is, at most
LaneCancel(w) ==
    /\ \A v \in Threads : lanes[v] = None
    /\ \E c \in {Soft, Hard} : lanes' = [lanes EXCEPT ![w] = c]
    /\ UNCHANGED <<KeysDB, cancelRequest, last, armed, pc, call, sent, received, keepers, lindas, LindasDB>>

NextT ==
    \/ \E w \in Workers :
          \/ LoopSend(w)
          \/ LoopReceive(w)
          \/ LoopReceiveBatched(w)
          \/ LoopLimit(w)
          \/ SampleTop(w)
          \/ Attempt(w)
          \/ NoTimeout(w)
          \/ TimedOutWait(w)
          \/ LaneCancel(w)
    \/ CancelBegin
    \/ CancelEnd

SpecT == Init /\ [][NextT]_vars

\* ------------------------------------------- the loop and cancel("none")
\* SpecN: the calls of SpecW, while the main thread calls linda:cancel("none")
\* and no other cancel.

\* linda_cancel("none"), first step: the Linda's cancel request is set to Soft
CancelNoneBegin ==
    /\ pc[Main] = "idle"
    /\ call' = [call EXCEPT ![Main] = [op |-> "cancel", args |-> <<"none">>]]
    /\ cancelRequest' = Soft
    /\ pc' = [pc EXCEPT ![Main] = "cancel"]
    /\ UNCHANGED <<KeysDB, last, armed, sent, received, keepers, lanes, lindas, LindasDB>>

NextN ==
    \/ \E w \in Workers :
          \/ BeginSend(w)
          \/ BeginReceive(w)
          \/ LoopTop(w)
          \/ Probe(w)
          \/ Wake(w)
          \/ SpuriousWake(w)
          \/ WholeLimit(w)
          \/ WholeSet(w)
    \/ CancelNoneBegin
    \/ CancelEnd

SpecN == Init /\ [][NextN]_vars

\* ------------------------------------------- keeper_call, copies and pacing
\* SpecG: every call on one key, one at a time, with keeper_call in full: the
\* arguments are copied into the keeper, the primitive runs, its results are
\* moved to the caller, the keeper's stack is reset and the GC is paced.  What
\* the copy engine answers and how much memory the keeper uses are inputs.

\* the largest memory usage of the keeper, and the largest GC threshold
MaxUsage == 2
MaxThreshold == 1

\* the GC thresholds that Keepers::initialize is given
Thresholds == -1..MaxThreshold

\* what inter_copy and inter_move answer
InterCopyResult == {"Success", "Error"}

\* mutant of GCPacing: a threshold of 0 is handled as the positive ones
GCPacing_zero_as_positive(func_, _gc_threshold, _gc_usage, _gc_usage_after) ==
    IF func_ = "clear" THEN "nothing"
    ELSE IF _gc_threshold >= 0
    THEN IF _gc_usage >= _gc_threshold
         THEN IF _gc_usage_after > _gc_threshold THEN "raise" ELSE "LUA_GCCOLLECT"
         ELSE "LUA_GCCOUNT"
    ELSE "nothing"

\* keeper_call, after the stack is reset: what is done to the keeper's GC,
\* given the threshold, the usage read first and the usage after a collection
GCPacing(func_, _gc_threshold, _gc_usage, _gc_usage_after) ==
    IF func_ = "clear" THEN "nothing"
    ELSE IF _gc_threshold = 0 THEN "LUA_GCSTEP"
    ELSE IF _gc_threshold > 0
    THEN IF _gc_usage >= _gc_threshold
         THEN IF _gc_usage_after > _gc_threshold THEN "raise" ELSE "LUA_GCCOLLECT"
         ELSE "LUA_GCCOUNT"
    ELSE "nothing"

\* keeper_call in full.  called: the primitive has run; has_value: _result was
\* set; exit: which way the call went
KeeperCall(db, func_, args, _gc_threshold, copy_in, copy_out, _gc_usage, _gc_usage_after) ==
    LET _args    == Len(args)
        called   == _args = 0 \/ copy_in = "Success"
        prim     == keeper_call(db, func_, args)
        _retvals == IF called THEN Len(prim.ret) ELSE 0
        _result  == called /\ (_retvals = 0 \/ copy_out = "Success")
        gc       == GCPacing(func_, _gc_threshold, _gc_usage, _gc_usage_after)
    IN  [db        |-> IF called THEN prim.db ELSE db,
         called    |-> called,
         has_value |-> _result,
         gc        |-> gc,
         exit      |-> IF gc = "raise" THEN "gc"
                       ELSE IF ~called THEN "copy_in"
                       ELSE IF ~_result THEN "copy_out"
                       ELSE "ok"]

\* the Linda call around keeper_call: r is what the call does when keeper_call
\* returns a value; when keeper_call raises or returns none, the call raises
\* an error and broadcasts nothing
LindaResult(r, kc) ==
    IF kc.exit = "ok"
    THEN [db |-> r.db, ret |-> r.ret, bcast |-> r.bcast]
    ELSE [db |-> kc.db, ret |-> <<Error>>, bcast |-> {}]

\* a call op of the Linda that calls the primitive func_ of the keeper; the
\* usage is of no account when the threshold is negative, and a collection
\* frees memory or none
CallG(op, func_, args, r) ==
    \E copy_in, copy_out \in InterCopyResult, usage \in 0..MaxUsage, after \in 0..MaxUsage :
        /\ after <= usage
        /\ keepers.gc_threshold < 0 => usage = 0
        /\ LET kc  == KeeperCall(KeysDB, func_, args, keepers.gc_threshold,
                                 copy_in, copy_out, usage, after)
               res == LindaResult(r, kc)
           IN  /\ KeysDB' = res.db
               /\ last' = [op |-> op, args |-> args, ret |-> res.ret, bcast |-> res.bcast,
                           tbl |-> <<>>, flag |-> cancelRequest, pre |-> KeysDB,
                           called |-> kc.called, exit |-> kc.exit, gc |-> kc.gc,
                           usage |-> usage, after |-> after]
        /\ UNCHANGED <<cancelRequest, armed, pc, call, sent, received, keepers, lanes, lindas, LindasDB>>

SendG ==
    \E k \in OneKey, vals \in SeqsOf(OneValue, 1, MaxN) :
        /\ Room(KeysDB, k, Len(vals))
        /\ CallG("send", "send", <<k>> \o vals, linda_send(KeysDB, cancelRequest, <<k>> \o vals))

ReceiveG ==
    \E k \in OneKey :
        CallG("receive", "receive", <<k>>, linda_receive(KeysDB, cancelRequest, "receive", <<k>>))

SetG ==
    \E k \in OneKey, vals \in SeqsOf(OneValue, 0, 1) :
        CallG("set", "set", <<k>> \o vals, linda_set(KeysDB, cancelRequest, <<k>> \o vals))

LimitG ==
    \E k \in OneKey, n \in 0..MaxLimit :
        CallG("limit", "limit", <<k, n>>, linda_limit(KeysDB, cancelRequest, <<k, n>>))

GetG ==
    \E k \in OneKey :
        CallG("get", "get", <<k>>, linda_get(KeysDB, cancelRequest, <<k>>))

ClearG == CallG("clear", "clear", <<>>, linda_clear(KeysDB))

\* Keepers::initialize is given any of the thresholds
InitG ==
    /\ KeysDB = [j \in {} |-> KeyUD_Create]
    /\ cancelRequest = None
    /\ last = [op |-> "init", args |-> <<>>, ret |-> <<>>, bcast |-> {}, tbl |-> <<>>,
               flag |-> None]
    /\ armed = {}
    /\ pc = [w \in Threads |-> "idle"]
    /\ call = [w \in Threads |-> NoCall]
    /\ sent = <<>>
    /\ received = <<>>
    /\ \E T \in Thresholds : keepers = [Keepers_initialize EXCEPT !.gc_threshold = T]
    /\ lanes = [w \in Threads |-> None]
    /\ lindas = <<>>
    /\ LindasDB = <<>>

NextG ==
    \/ SendG
    \/ ReceiveG
    \/ SetG
    \/ LimitG
    \/ GetG
    \/ ClearG

SpecG == InitG /\ [][NextG]_vars

\* ------------------------------------------------- the debugger watch path
\* SpecD: a worker calls the Linda through Linda::ProtectedCall, as in SpecP,
\* while the main thread evaluates linda:__towatch() (a build with
\* HAVE_DECODA_SUPPORT).  linda_towatch calls keeper_push_linda_storage
\* itself: it locks nothing.

\* linda_towatch: the keeper is looked up and the Linda's storage is read from
\* the keeper's Lua state; mutex is the holder of the Keeper's mutex at that
\* time.  While another thread is using the keeper's Lua state the read is a
\* data race: it gives the table, or nothing is known of what it does.
Towatch ==
    /\ pc[Main] = "idle"
    /\ LET r == keeper_push_linda_storage(KeysDB)
       IN  \/ /\ last' = [op |-> "towatch", args |-> <<>>, ret |-> r.ret, bcast |-> {},
                          tbl |-> r.tbl, flag |-> cancelRequest, exit |-> "done",
                          by |-> Main, closing |-> keepers.isClosing,
                          mutex |-> keepers.mutex]
              /\ UNCHANGED <<KeysDB, cancelRequest, armed, pc, call, sent, received,
                             keepers, lanes, lindas, LindasDB>>
           \/ /\ keepers.mutex # Free
              /\ Undefined(Main)

NextD ==
    \/ \E w \in Caller :
          \/ CallSend(w)
          \/ CallReceive(w)
          \/ CallReceiveBatched(w)
          \/ CallSet(w)
          \/ CallGet(w)
          \/ CallLimit(w)
          \/ CallCount(w)
          \/ CallDump(w)
          \/ AcquireWhichKeeper(w)
          \/ AcquireLock(w)
          \/ ReadKL(w)
          \/ PCall(w)
          \/ Body(w)
          \/ WaitEnds(w)
          \/ Release(w)
    \/ Towatch

SpecD == Init /\ [][NextD]_vars

\* ------------------------------------------------------------ lanes.linda()
\* SpecK: a worker creates Lindas, with and without a group, over a pool of
\* 0, 1 or several keepers, while the main thread closes the keepers.
\* lanes.linda() checks its arguments against the number of keepers, then the
\* Linda is constructed: Linda::Linda reads the number of keepers again.

\* the largest pool, the largest group asked for, the Lindas created
MaxKeepers == 2
MaxGroup == 2
MaxLindas == 2

\* Keepers::initialize with nbKeepers_ keepers: none, the Keeper, or the
\* vector of keepers
KeepersOf(nbKeepers_) ==
    [isClosing    |-> FALSE,
     keeper_array |-> CASE nbKeepers_ = 0 -> "monostate"
                        [] nbKeepers_ = 1 -> "Keeper"
                        [] OTHER          -> "KV",
     L            |-> IF nbKeepers_ = 0 THEN "nullptr" ELSE "KeeperState",
     mutex        |-> Free,
     gc_threshold |-> -1,
     nbKeepers    |-> nbKeepers_]

\* Keepers::getNbKeepers
getNbKeepers ==
    IF keepers.isClosing THEN 0
    ELSE IF keepers.keeper_array = "monostate" THEN 0
    ELSE IF keepers.keeper_array = "Keeper" THEN 1
    ELSE keepers.nbKeepers

\* the call lanes.linda(args) ends with ret
LindaDone(w, args, ret) ==
    /\ pc' = [pc EXCEPT ![w] = "idle"]
    /\ call' = [call EXCEPT ![w] = NoCall]
    /\ last' = [op |-> "linda", args |-> args, ret |-> ret, bcast |-> {}, tbl |-> <<>>,
                flag |-> cancelRequest]

\* lanes.linda([group]): without a group there must be fewer than 2 keepers,
\* with one it must be in 0 .. _nbKeepers - 1
LG_linda(w) ==
    /\ pc[w] = "idle"
    /\ Cardinality(DOMAIN lindas) < MaxLindas
    /\ \E args \in SeqsOf(-1..MaxGroup, 0, 1) :
          LET _nbKeepers == getNbKeepers
              _ok == IF Len(args) = 0
                     THEN _nbKeepers < 2
                     ELSE args[1] >= 0 /\ args[1] < _nbKeepers
          IN  IF _ok
              THEN /\ pc' = [pc EXCEPT ![w] = "pushDeepUserdata"]
                   /\ call' = [call EXCEPT ![w] = [op |-> "linda", args |-> args]]
                   /\ last' = last
              ELSE LindaDone(w, args, <<Error>>)
    /\ UNCHANGED <<KeysDB, cancelRequest, armed, sent, received, keepers, lanes, lindas,
                   LindasDB>>

\* the Linda is constructed with the group asked for, 0 when none was given:
\* keeperIndex{ group_ % U_->keepers.getNbKeepers() }.  With no keeper the
\* modulo is by zero, which is undefined: the thread traps, or the build gives
\* the dividend
Linda_Linda(w) ==
    /\ pc[w] = "pushDeepUserdata"
    /\ LET args   == call[w].args
           group_ == IF Len(args) = 0 THEN 0 ELSE args[1]
           N      == getNbKeepers
           id     == Cardinality(DOMAIN lindas) + 1
           made(i) == /\ lindas' = [l \in DOMAIN lindas \cup {id} |->
                                       IF l = id
                                       THEN [group |-> group_, keeperIndex |-> i, N |-> N]
                                       ELSE lindas[l]]
                      /\ LindaDone(w, args, <<"linda">>)
                      /\ UNCHANGED <<KeysDB, cancelRequest, armed, sent, received, keepers,
                                     lanes, LindasDB>>
       IN  IF N = 0
           THEN \/ Undefined(w)
                \/ made(group_)
           ELSE made(group_ % N)

\* Keepers::initialize is given any number of keepers
InitK ==
    /\ KeysDB = [j \in {} |-> KeyUD_Create]
    /\ cancelRequest = None
    /\ last = [op |-> "init", args |-> <<>>, ret |-> <<>>, bcast |-> {}, tbl |-> <<>>,
               flag |-> None]
    /\ armed = {}
    /\ pc = [w \in Threads |-> "idle"]
    /\ call = [w \in Threads |-> NoCall]
    /\ sent = <<>>
    /\ received = <<>>
    /\ \E n \in 0..MaxKeepers : keepers = KeepersOf(n)
    /\ lanes = [w \in Threads |-> None]
    /\ lindas = <<>>
    /\ LindasDB = <<>>

NextK ==
    \/ \E w \in Caller :
          \/ LG_linda(w)
          \/ Linda_Linda(w)
    \/ CloseTestAndSet
    \/ CloseOneKeeper
    \/ CloseEmplace

SpecK == InitK /\ [][NextK]_vars

\* --------------------------------------------- several Lindas in one Keeper
\* SpecL: two Lindas assigned to the same Keeper are called, one call at a
\* time, on the same two keys.  The Keeper's Lua state holds LindasDB, the
\* table linda -> KeysDB; every primitive but clear reaches the keys of its
\* Linda through PushKeysDB.

\* the Lindas of the Keeper, and the values they may hold together
LindasL == {"l1", "l2"}
MaxStored == 2

\* PushKeysDB: the KeysDB table of the Linda, a new table when it has none
PushKeysDB(ldb, linda) ==
    IF linda \in DOMAIN ldb THEN ldb[linda] ELSE [j \in {} |-> KeyUD_Create]

\* mutant of ClearLinda: the tables of all the Lindas are removed
ClearLinda_all(ldb, linda) == [l \in {} |-> [j \in {} |-> KeyUD_Create]]

\* keepercall_clear: LindasDB[linda] = nil
ClearLinda(ldb, linda) == [l \in DOMAIN ldb \ {linda} |-> ldb[l]]

\* the number of values that the Lindas of ldb hold
RECURSIVE StoredIn(_, _)
StoredIn(db, ks) ==
    IF ks = {} THEN 0
    ELSE LET k == CHOOSE x \in ks : TRUE IN db[k].count + StoredIn(db, ks \ {k})

RECURSIVE Stored(_, _)
Stored(ldb, ls) ==
    IF ls = {} THEN 0
    ELSE LET l == CHOOSE x \in ls : TRUE
         IN  StoredIn(ldb[l], DOMAIN ldb[l]) + Stored(ldb, ls \ {l})

\* a call op of the Linda linda: r(db) is what the call does on the KeysDB
\* that PushKeysDB gave it, which is LindasDB[linda] from then on
CallL(linda, op, args, r) ==
    /\ LindasDB' = [l \in DOMAIN LindasDB \cup {linda} |->
                      IF l = linda THEN r.db ELSE LindasDB[l]]
    /\ last' = [op |-> op, linda |-> linda, args |-> args, ret |-> r.ret,
                bcast |-> r.bcast]
    /\ UNCHANGED <<KeysDB, cancelRequest, armed, pc, call, sent, received, keepers, lanes,
                   lindas>>

SendL(linda) ==
    \E k \in Keys :
        LET db == PushKeysDB(LindasDB, linda)
        IN  /\ Room(db, k, 1)
            /\ Stored(LindasDB, DOMAIN LindasDB) < MaxStored
            /\ CallL(linda, "send", <<k, "x">>, linda_send(db, cancelRequest, <<k, "x">>))

ReceiveL(linda) ==
    \E k \in Keys :
        CallL(linda, "receive", <<k>>,
              linda_receive(PushKeysDB(LindasDB, linda), cancelRequest, "receive", <<k>>))

SetL(linda) ==
    \E k \in Keys, vals \in SeqsOf(SetValue, 0, 1) :
        /\ Stored(LindasDB, DOMAIN LindasDB) + Len(vals) <= MaxStored
        /\ CallL(linda, "set", <<k>> \o vals,
                 linda_set(PushKeysDB(LindasDB, linda), cancelRequest, <<k>> \o vals))

\* the limit is kept as a string in last
LimitL(linda) ==
    \E k \in Keys :
        CallL(linda, "limit", <<k, "1">>,
              linda_limit(PushKeysDB(LindasDB, linda), cancelRequest, <<k, 1>>))

\* the Linda is destroyed: keepercall_clear, which does not go through
\* PushKeysDB
ClearL(linda) ==
    /\ LindasDB' = ClearLinda(LindasDB, linda)
    /\ last' = [op |-> "clear", linda |-> linda, args |-> <<>>, ret |-> <<>>, bcast |-> {}]
    /\ UNCHANGED <<KeysDB, cancelRequest, armed, pc, call, sent, received, keepers, lanes,
                   lindas>>

NextL ==
    \E linda \in LindasL :
        \/ SendL(linda)
        \/ ReceiveL(linda)
        \/ SetL(linda)
        \/ LimitL(linda)
        \/ ClearL(linda)

SpecL == Init /\ [][NextL]_vars

\* ------------------------------------------------------------------ claims
\* the values a KeyUD holds, oldest first, read at first .. first+count-1
Contents(ud) == [i \in 1..ud.count |-> lua_rawgeti(ud.fifo, ud.first + (i - 1))]

\* the Slot of key k before the step; a key without a Slot is the fresh Slot
\* that a write creates
Pre(k) == IF k \in DOMAIN KeysDB
          THEN KeysDB[k]
          ELSE [first |-> 1, count |-> 0, limit |-> -1, fifo |-> [j \in {} |-> Nil]]

\* the values of a call's arguments after its key
ValsOf(args) == SubSeq(args, 2, Len(args))

\* C2 (as stated): in every reachable state every Slot has count >= 0,
\* limit >= -1 and (limit < 0 or count <= limit).
C2_SlotWithinLimit ==
    \A k \in DOMAIN KeysDB :
        /\ KeysDB[k].count >= 0
        /\ KeysDB[k].limit >= -1
        /\ (KeysDB[k].limit < 0 \/ KeysDB[k].count <= KeysDB[k].limit)

\* C2 (amended): in every reachable state every Slot has count >= 0 and
\* limit >= -1, and a send that returned true leaves its Slot with limit < 0
\* or count <= limit.
C2_SendWithinLimit ==
    \A k \in DOMAIN KeysDB :
        /\ KeysDB[k].count >= 0
        /\ KeysDB[k].limit >= -1
        /\ (last.op = "send" /\ last.ret = <<True>> /\ last.args[1] = k)
              => (KeysDB[k].limit < 0 \/ KeysDB[k].count <= KeysDB[k].limit)

\* a send of two values has just filled a limited Slot up to its limit
C2_Witness ==
    /\ last.op = "send" /\ last.ret = <<True>> /\ Len(last.args) = 3
    /\ KeysDB[last.args[1]].limit >= 0
    /\ KeysDB[last.args[1]].count = KeysDB[last.args[1]].limit

\* C3: a send of n >= 1 values returns true exactly when limit < 0 or
\* count + n <= limit, and then the n values are appended in argument order;
\* otherwise it returns false and the Slot is unchanged.
C3_SendContract ==
    [][ last'.op = "send" =>
          LET k   == last'.args[1]
              v   == ValsOf(last'.args)
              fit == Pre(k).limit < 0 \/ Pre(k).count + Len(v) <= Pre(k).limit
          IN  /\ (last'.ret = <<True>>) <=> fit
              /\ (last'.ret = <<False>>) <=> ~fit
              /\ fit => /\ Contents(KeysDB'[k]) = Contents(Pre(k)) \o v
                        /\ KeysDB'[k].count = Pre(k).count + Len(v)
                        /\ KeysDB'[k].first = Pre(k).first
                        /\ KeysDB'[k].limit = Pre(k).limit
              /\ ~fit => KeysDB' = KeysDB
      ]_vars

\* a send was refused on a Slot that had room for fewer values than it brought
C3_Witness ==
    /\ last.op = "send" /\ last.ret = <<False>> /\ Len(last.args) = 3
    /\ KeysDB[last.args[1]].count < KeysDB[last.args[1]].limit

\* C4: send(k, v) on an empty key followed by receive(k) returns (v, k).
C4_RoundTrip ==
    [][ ( /\ last.op = "send" /\ last.ret = <<True>> /\ Len(last.args) = 2
          /\ KeysDB[last.args[1]].count = 1
          /\ last'.op = "receive" /\ last'.args = <<last.args[1]>> )
        => last'.ret = <<last.args[2], last.args[1]>>
      ]_vars

\* the indices of the keys of a receive whose Slot exists and holds a value
WithData(keys) ==
    {i \in 1..Len(keys) : keys[i] \in DOMAIN KeysDB /\ KeysDB[keys[i]].count > 0}

\* C5: receive(k1..km) removes exactly one value, the oldest value of the
\* first key in argument order whose Slot exists with count > 0; every other
\* Slot is unchanged; nothing is removed when no listed key has data.
C5_ReceivePriority ==
    [][ last'.op = "receive" =>
          LET keys == last'.args
          IN  IF WithData(keys) = {}
              THEN KeysDB' = KeysDB /\ last'.ret = <<Nil, Timeout>>
              ELSE LET i == CHOOSE x \in WithData(keys) : \A y \in WithData(keys) : x <= y
                       k == keys[i]
                   IN  /\ DOMAIN KeysDB' = DOMAIN KeysDB
                       /\ \A j \in DOMAIN KeysDB : j # k => KeysDB'[j] = KeysDB[j]
                       /\ KeysDB'[k].count = KeysDB[k].count - 1
                       /\ Contents(KeysDB'[k]) = Tail(Contents(KeysDB[k]))
                       /\ KeysDB'[k].limit = KeysDB[k].limit
                       /\ {last'.ret[x] : x \in 1..Len(last'.ret)}
                             = {k, Head(Contents(KeysDB[k]))}
      ]_vars

\* receive("a", "b") took from "a" while "b", written to first, still holds data
C5_Witness ==
    /\ last.op = "receive" /\ last.args = <<"a", "b">>
    /\ \E x \in 1..Len(last.ret) : last.ret[x] = "a"
    /\ "b" \in DOMAIN KeysDB /\ KeysDB["b"].count > 0
    /\ KeysDB["b"].first = 1 /\ KeysDB["a"].first > 1

\* C6: a batched receive with 1 <= min <= max removes the min(max, count)
\* oldest values when the Slot exists and count >= min, and nothing
\* otherwise; the values removed are returned in FIFO order.
C6_BatchedContract ==
    [][ last'.op = "receive_batched" =>
          LET k   == last'.args[1]
              min == last'.args[2]
              max == IF Len(last'.args) >= 3 THEN last'.args[3] ELSE min
              c   == Pre(k).count
              n   == IF max < c THEN max ELSE c
              r   == last'.ret
          IN  IF k \in DOMAIN KeysDB /\ c >= min
              THEN /\ min <= n /\ n <= max
                   /\ KeysDB'[k].count = c - n
                   /\ Contents(KeysDB'[k]) = SubSeq(Contents(KeysDB[k]), n + 1, c)
                   /\ KeysDB'[k].limit = KeysDB[k].limit
                   /\ Len(r) >= n
                   /\ SubSeq(r, Len(r) - n + 1, Len(r)) = SubSeq(Contents(KeysDB[k]), 1, n)
              ELSE /\ KeysDB' = KeysDB
                   /\ r = <<Nil, Timeout>>
      ]_vars

\* a batched receive took the two values of the Slot, fewer than its max of 3
C6_Witness ==
    /\ last.op = "receive_batched" /\ Len(last.args) = 3
    /\ last.args[2] = 1 /\ last.args[3] = 3
    /\ Len(last.ret) = 3
    /\ KeysDB[last.args[1]].count = 0

\* C7: a batched receive that removes values returns exactly the values it
\* removed, with no key in front.
C7_BatchedResult ==
    [][ ( /\ last'.op = "receive_batched"
          /\ last'.args[1] \in DOMAIN KeysDB
          /\ KeysDB'[last'.args[1]].count < KeysDB[last'.args[1]].count )
        => last'.ret = SubSeq(Contents(KeysDB[last'.args[1]]), 1,
                              KeysDB[last'.args[1]].count - KeysDB'[last'.args[1]].count)
      ]_vars

\* C8: set(k, v1..vn), n >= 1, leaves the Slot holding exactly v1..vn with
\* first = 1, count = n and the limit it had (-1 for a new key); the receive
\* that follows returns v1.
C8_SetValues ==
    [][ /\ (last'.op = "set" /\ Len(last'.args) > 1) =>
              LET k == last'.args[1]
                  v == ValsOf(last'.args)
              IN  /\ k \in DOMAIN KeysDB'
                  /\ Contents(KeysDB'[k]) = v
                  /\ DOMAIN KeysDB'[k].fifo = 1..Len(v)
                  /\ KeysDB'[k].first = 1
                  /\ KeysDB'[k].count = Len(v)
                  /\ KeysDB'[k].limit = Pre(k).limit
        /\ ( /\ last.op = "set" /\ Len(last.args) > 1
             /\ last'.op = "receive" /\ last.args[1] = last'.args[1] )
              => /\ \E i \in 1..Len(last'.ret) : last'.ret[i] = last.args[2]
                 /\ Contents(KeysDB'[last.args[1]]) = SubSeq(last.args, 3, Len(last.args))
      ]_vars

\* set stored two values in a Slot whose limit is 1
C8_Witness ==
    /\ last.op = "set" /\ Len(last.args) = 3
    /\ KeysDB[last.args[1]].limit = 1
    /\ KeysDB[last.args[1]].count = 2

\* C9: set(k) with no value changes nothing when k has no Slot, removes the
\* Slot when its limit is negative, and otherwise keeps it with count = 0,
\* first = 1 and the same limit; count(k) returns the Slot's count, or nil
\* when k has no Slot; a receive never removes a Slot.
C9_SetNoValue ==
    [][ /\ (last'.op = "set" /\ Len(last'.args) = 1) =>
              LET k == last'.args[1]
              IN  IF k \notin DOMAIN KeysDB THEN KeysDB' = KeysDB
                  ELSE IF KeysDB[k].limit < 0 THEN k \notin DOMAIN KeysDB'
                  ELSE /\ k \in DOMAIN KeysDB'
                       /\ KeysDB'[k].count = 0
                       /\ KeysDB'[k].first = 1
                       /\ KeysDB'[k].limit = KeysDB[k].limit
                       /\ DOMAIN KeysDB'[k].fifo = {}
        /\ (last'.op = "count" /\ Len(last'.args) = 1) =>
              /\ KeysDB' = KeysDB
              /\ last'.ret = IF last'.args[1] \in DOMAIN KeysDB
                             THEN <<ToString(KeysDB[last'.args[1]].count)>>
                             ELSE <<Nil>>
        /\ last'.op \in {"receive", "receive_batched"} => DOMAIN KeysDB' = DOMAIN KeysDB
      ]_vars

\* set(k) with no value emptied a full limited Slot, which is kept
C9_Witness ==
    /\ last.op = "set" /\ Len(last.args) = 1 /\ last.ret = <<True>>
    /\ last.args[1] \in DOMAIN KeysDB
    /\ KeysDB[last.args[1]].count = 0
    /\ KeysDB[last.args[1]].limit >= 1

\* C10 (as stated): once a limited key has held as many values as its limit,
\* no send on it returns true until a receive has removed a value from it.
C10_NoSendUntilReceive ==
    [][ (last'.op = "send" /\ last'.args[1] \in armed) => last'.ret # <<True>> ]_vars

\* C10 (amended): while a key holds at least as many values as its
\* non-negative limit, every send on it returns false and changes nothing,
\* and only a receive, batched receive, set, limit or clear ends that.
C10_FullKeyRefusesSend ==
    [][ \A k \in DOMAIN KeysDB :
          (KeysDB[k].limit >= 0 /\ KeysDB[k].count >= KeysDB[k].limit) =>
              /\ (last'.op = "send" /\ last'.args[1] = k) =>
                    (last'.ret = <<False>> /\ KeysDB' = KeysDB)
              /\ last'.op \notin {"receive", "receive_batched", "set", "limit", "clear"} =>
                    (k \in DOMAIN KeysDB' /\ KeysDB'[k] = KeysDB[k])
      ]_vars

\* a send was refused on a key that has been full since its limit was set
C10_Witness ==
    /\ last.op = "send" /\ last.ret = <<False>>
    /\ last.args[1] \in armed
    /\ KeysDB[last.args[1]].limit >= 1

\* C1: whatever the interleaving of the workers' sends, receives, batched
\* receives (and limit calls) on one key, the values received from the key
\* are a prefix of the values enqueued on it, in enqueue order.
C1_ReceivedPrefixOfSent ==
    /\ Len(received) <= Len(sent)
    /\ received = SubSeq(sent, 1, Len(received))

\* two different values were received while a sender that found the key full
\* and a receiver that has been notified are both inside their calls
C1_Witness ==
    /\ Len(received) >= 2
    /\ received[1] # received[2]
    /\ \E w \in Workers : pc[w] = "waiting" /\ call[w].op = "send"
    /\ \E w \in Workers : pc[w] = "notified" /\ call[w].op = "receive_batched"

\* C11: get(k, c), c >= 1, returns the min(c, count) oldest values of the key
\* in FIFO order (nothing when the Slot is absent or empty); get, count and
\* dump leave every Slot as it was, dump shows each Slot as it is, and the
\* receive that follows a get returns the first value the get returned.
C11_GetReadOnly ==
    [][ /\ last'.op \in {"get", "count", "dump"} => KeysDB' = KeysDB
        /\ last'.op = "get" =>
              LET k == last'.args[1]
                  c == IF Len(last'.args) = 2 THEN last'.args[2] ELSE 1
                  n == IF c < Pre(k).count THEN c ELSE Pre(k).count
              IN  last'.ret = SubSeq(Contents(Pre(k)), 1, n)
        /\ last'.op = "dump" => last'.tbl = KeysDB
        /\ ( /\ last.op = "get" /\ Len(last.ret) > 0
             /\ last'.op = "receive" /\ last'.args[1] = last.args[1] )
              => \E i \in 1..Len(last'.ret) : last'.ret[i] = last.ret[1]
      ]_vars

\* get(k, 3) returned the two values of a Slot whose first index is past 1
C11_Witness ==
    /\ last.op = "get" /\ Len(last.args) = 2
    /\ last.args[2] = 3
    /\ Len(last.ret) = 2
    /\ KeysDB[last.args[1]].count = 2
    /\ KeysDB[last.args[1]].first > 1

\* C12: count() returns the table key -> count of exactly the keys that have
\* a Slot, Slots that hold nothing included; count(k) returns the Slot's count,
\* or nil when k has no Slot; count(k1..km), m >= 2, returns the table of
\* exactly the given keys that have a Slot, each with its count.
C12_CountContract ==
    [][ last'.op = "count" =>
          /\ KeysDB' = KeysDB
          /\ IF Len(last'.args) = 1
             THEN last'.ret = IF last'.args[1] \in DOMAIN KeysDB
                              THEN <<ToString(KeysDB[last'.args[1]].count)>>
                              ELSE <<Nil>>
             ELSE /\ last'.ret = <<Table>>
                  /\ DOMAIN last'.tbl =
                        IF Len(last'.args) = 0 THEN DOMAIN KeysDB
                        ELSE {last'.args[i] : i \in 1..Len(last'.args)} \cap DOMAIN KeysDB
                  /\ \A k \in DOMAIN last'.tbl : last'.tbl[k] = KeysDB[k].count
      ]_vars

\* count("b", "a") returned a table with "a" alone, whose Slot holds nothing
C12_Witness ==
    /\ last.op = "count" /\ Len(last.args) = 2
    /\ last.args[1] = "b" /\ last.args[2] = "a"
    /\ DOMAIN last.tbl = {"a"}
    /\ last.tbl["a"] = 0
    /\ "b" \notin DOMAIN KeysDB
\* C18: cancel("none") leaves the Linda's flag at None whatever it was,
\* broadcasts on no condition variable and changes neither the storage nor
\* any worker's call.
C18_CancelNone ==
    [][ (last'.op = "cancel" /\ last'.args = <<"none">>) =>
          /\ cancelRequest' = None
          /\ last'.bcast = {}
          /\ KeysDB' = KeysDB /\ pc' = pc /\ call' = call
      ]_vars

\* cancel("none") was called on a Linda whose flag was Soft
C18_Witness ==
    /\ last.op = "cancel" /\ last.args = <<"none">>
    /\ last.flag = Soft
    /\ cancelRequest = None

\* C19: while the Linda's flag is Soft, set, get and limit (given valid
\* arguments) return the cancel sentinel, change no Slot and broadcast on no
\* condition variable; count returns what it returns when the flag is None.
C19_CancelledCalls ==
    [][ cancelRequest = Soft =>
          /\ ( /\ last'.op \in {"set", "get", "limit"}
               /\ ~ (last'.op = "limit" /\ Len(last'.args) = 2 /\ last'.args[2] < 0) )
                => /\ last'.ret = <<CancelError>>
                   /\ KeysDB' = KeysDB
                   /\ last'.bcast = {}
          /\ last'.op = "count" =>
                /\ KeysDB' = KeysDB
                /\ Len(last'.args) = 1 =>
                      last'.ret = IF last'.args[1] \in DOMAIN KeysDB
                                  THEN <<ToString(KeysDB[last'.args[1]].count)>>
                                  ELSE <<Nil>>
                /\ Len(last'.args) # 1 =>
                      /\ last'.ret = <<Table>>
                      /\ last'.tbl = [k \in DOMAIN KeysDB |-> KeysDB[k].count]
      ]_vars

\* set(k, v) was refused on a cancelled Linda whose Slot for k is full
C19_Witness ==
    /\ last.op = "set" /\ Len(last.args) = 2
    /\ last.flag = Soft
    /\ last.ret = <<CancelError>>
    /\ last.args[1] \in DOMAIN KeysDB
    /\ KeysDB[last.args[1]].limit >= 1
    /\ KeysDB[last.args[1]].count >= KeysDB[last.args[1]].limit

\* C20: limit(k) with no n leaves the Slot (created if absent) with limit -1
\* and everything else as it was, and returns true exactly when the key held
\* at least as many values as its previous non-negative limit; limit(k, n)
\* with n < 0 is an error and changes nothing.
C20_LimitReset ==
    [][ last'.op = "limit" =>
          LET k == last'.args[1]
          IN  /\ (Len(last'.args) = 1 /\ cancelRequest = None) =>
                    /\ k \in DOMAIN KeysDB'
                    /\ KeysDB'[k] = [Pre(k) EXCEPT !.limit = -1]
                    /\ \A j \in DOMAIN KeysDB : j # k => KeysDB'[j] = KeysDB[j]
                    /\ last'.ret = IF Pre(k).limit >= 0 /\ Pre(k).count >= Pre(k).limit
                                   THEN <<True>> ELSE <<>>
              /\ (Len(last'.args) = 2 /\ last'.args[2] < 0) =>
                    /\ last'.ret = <<Error>>
                    /\ KeysDB' = KeysDB
                    /\ last'.bcast = {}
      ]_vars

\* limit(k) put a Slot that was full under its limit back to unlimited
C20_Witness ==
    /\ last.op = "limit" /\ Len(last.args) = 1
    /\ last.ret = <<True>>
    /\ KeysDB[last.args[1]].limit = -1
    /\ KeysDB[last.args[1]].count >= 1

\* the values that key k holds, first to last
Queue(k) == Contents(Pre(k))

\* worker w is inside a call of op that was given no timeout
Blocking(w, op) == pc[w] # "idle" /\ call[w].op = op /\ call[w].until = Infinite

\* C13 (as stated): a worker is inside a receive with no timeout and
\* linda:cancel("read") or linda:cancel("both") has returned, at whatever
\* point of the receiver's loop it was called: the receive returns in the end
\* with no other event, unless the cancel request is reset.
C13_CancelUnblocksReceive ==
    \A w \in Workers :
        (Blocking(w, "receive") /\ cancelRequest = Soft /\ pc[Main] = "idle")
        ~> (pc[w] = "idle" \/ cancelRequest = None)

\* C16: a receiver that waits on its condition variable with no notification
\* pending waits on a key that holds nothing (no wakeup is lost between its
\* failed probe and its wait), and a receive with no timeout whose key holds a
\* value returns a value of the key in the end, unless the key is emptied by
\* another call or the Linda is cancelled.
C16_ReceiverWoken ==
    /\ [](\A w \in Workers :
            pc[w] = "waiting" /\ call[w].op = "receive" => Queue(call[w].args[1]) = <<>>)
    /\ \A w \in Workers :
          (Blocking(w, "receive") /\ Queue(call[w].args[1]) # <<>> /\ cancelRequest = None)
          ~> \/ pc[w] = "idle" /\ call[w].op = "receive" /\ Len(call[w].ret) = 2
                /\ call[w].ret[1] \in Keys /\ call[w].ret[2] \in Values
             \/ pc[w] # "idle" /\ Queue(call[w].args[1]) = <<>>
             \/ cancelRequest # None

\* C16: a receiver was waiting, a send has returned true, the receiver is
\* notified and the value is in the key
C16_Witness ==
    \E w, s \in Workers :
        /\ pc[w] = "notified" /\ Blocking(w, "receive")
        /\ pc[s] = "idle" /\ call[s].op = "send" /\ call[s].ret = <<True>>
        /\ Queue(call[w].args[1]) # <<>>
        /\ cancelRequest = None

\* key k takes n more values: it has no limit, or its count plus n is within it
HasRoom(k, n) == Pre(k).limit < 0 \/ Pre(k).count + n <= Pre(k).limit

\* worker w is inside a send of one value that was given no timeout
BlockingSendOne(w) == Blocking(w, "send") /\ Len(call[w].args) = 2

\* C14: a sender of one value that waits on its condition variable with no
\* notification pending waits on a key that is full (a limit call that raises
\* the limit above the count notifies it), and a send of one value with no
\* timeout whose key has room returns true in the end, unless the key is
\* filled again by another call or the Linda is cancelled.
C14_LimitWakesSender ==
    /\ [](\A w \in Workers :
            pc[w] = "waiting" /\ BlockingSendOne(w) => ~ HasRoom(call[w].args[1], 1))
    /\ \A w \in Workers :
          (BlockingSendOne(w) /\ HasRoom(call[w].args[1], 1) /\ cancelRequest = None)
          ~> \/ pc[w] = "idle" /\ call[w].op = "send" /\ call[w].ret = <<True>>
             \/ pc[w] # "idle" /\ ~ HasRoom(call[w].args[1], 1)
             \/ cancelRequest # None

\* C14: a sender of one value was waiting on a full key, another worker's
\* limit call has raised the limit above the count, the sender is notified
C14_Witness ==
    \E w, l \in Workers :
        /\ pc[w] = "notified" /\ BlockingSendOne(w)
        /\ pc[l] = "idle" /\ call[l].op = "limit" /\ call[l].ret = <<True>>
        /\ Pre(call[w].args[1]).count >= 1
        /\ Pre(call[w].args[1]).limit > Pre(call[w].args[1]).count
        /\ cancelRequest = None

\* the step is a linda:set() call by worker s
SetStep(s) == pc[s] = "idle" /\ call'[s] # call[s] /\ call'[s].op = "set"

\* worker w waits, with no notification pending, in a send of one value on a
\* key limited to 1 that holds one value
BlockedOnFullKey(w) ==
    /\ pc[w] = "waiting" /\ BlockingSendOne(w)
    /\ Pre(call[w].args[1]).limit = 1
    /\ Pre(call[w].args[1]).count = 1

\* C15 (as stated): key k is limited to 1 and holds one value, a send of one
\* value with no timeout is blocked on it; a set(k, v) by another worker makes
\* the blocked send retry.
C15_SetWakesSender ==
    [][\A w, s \in Workers :
          /\ BlockedOnFullKey(w) /\ SetStep(s) /\ cancelRequest = None
          /\ Queue(call[w].args[1])' \in SeqsOf(SetValue, 1, 1)
          => pc'[w] = "notified"]_vars

\* C15 (amended): key k is limited to 1 and holds one value, a send of one
\* value with no timeout is blocked on it.  A set(k, v) by another worker
\* replaces the value by v, which leaves the key full: the set returns nothing,
\* the sender is not notified and stays blocked, and the key holds v alone.  A
\* set(k) with no value empties the key, returns true and notifies the sender.
C15_SetKeepsSenderBlocked ==
    [][\A w, s \in Workers :
          BlockedOnFullKey(w) /\ SetStep(s) /\ cancelRequest = None
          => \/ /\ Queue(call[w].args[1])' \in SeqsOf(SetValue, 1, 1)
                /\ Pre(call[w].args[1])'.limit = 1
                /\ call'[s].ret = <<>>
                /\ pc'[w] = "waiting"
             \/ /\ Queue(call[w].args[1])' = <<>>
                /\ Pre(call[w].args[1])'.limit = 1
                /\ call'[s].ret = <<True>>
                /\ pc'[w] = "notified"]_vars

\* C15: a sender of one value is blocked on a key limited to 1, another
\* worker's set has returned and the key holds the value that was set
C15_Witness ==
    \E w, s \in Workers :
        /\ BlockedOnFullKey(w)
        /\ pc[s] = "idle" /\ call[s].op = "set" /\ call[s].ret = <<>>
        /\ Queue(call[w].args[1]) \in SeqsOf(SetValue, 1, 1)
        /\ cancelRequest = None

\* what a send or a receive returns when its deadline is reached
TimedOut(op) == IF op = "send" THEN <<False>> ELSE <<Nil, Timeout>>

\* C17: a send or receive given timeout 0 never waits on a condition variable
\* and calls the keeper once at most: the step that calls the keeper ends the
\* call, with false (send) or nil, "timeout" (receive) when the keeper gave
\* nothing.  A call given no timeout never returns such a timeout result.
C17_PollAndInfinite ==
    /\ [](\A w \in Workers :
            pc[w] # "idle" /\ call[w].until = Zero => pc[w] \in {"top", "probe"})
    /\ [][\A w \in Workers :
            /\ pc[w] = "probe" /\ call[w].until = Zero /\ pc'[w] # "probe"
               => /\ pc'[w] = "idle"
                  /\ (KeysDB' = KeysDB) = (call'[w].ret = TimedOut(call[w].op))
            /\ Blocking(w, call[w].op) /\ pc'[w] = "idle"
               => call'[w].ret # TimedOut(call[w].op)]_vars

\* C17: a send and a receive given timeout 0 have returned false and
\* nil, "timeout"
C17_Witness ==
    \E w, s \in Workers :
        /\ pc[w] = "idle" /\ call[w].op = "send" /\ call[w].ret = <<False>>
        /\ pc[s] = "idle" /\ call[s].op = "receive" /\ call[s].ret = <<Nil, Timeout>>

\* C24: in every reachable state each Slot holds values at exactly the indices
\* first .. first+count-1 and first is 1 when count is 0; a receive that pops
\* n values and leaves some advances first by n, one that leaves none resets
\* first to 1.
C24_SlotIndices ==
    /\ [](\A k \in DOMAIN KeysDB :
            /\ DOMAIN KeysDB[k].fifo = KeysDB[k].first .. (KeysDB[k].first + KeysDB[k].count - 1)
            /\ (KeysDB[k].count = 0 => KeysDB[k].first = 1))
    /\ [][ last'.op \in {"receive", "receive_batched"} =>
             LET k == last'.args[1]
                 n == KeysDB[k].count - KeysDB'[k].count
             IN  k \in DOMAIN KeysDB /\ k \in DOMAIN KeysDB' /\ n > 0 =>
                   KeysDB'[k].first = IF KeysDB'[k].count > 0 THEN KeysDB[k].first + n ELSE 1
         ]_vars

\* C24: a receive has popped a value and left one behind it: first is 2; and
\* the value is at index 2 alone
C24_Witness ==
    /\ last.op \in {"receive", "receive_batched"}
    /\ "a" \in DOMAIN KeysDB
    /\ KeysDB["a"].first = 2 /\ KeysDB["a"].count = 1
    /\ DOMAIN KeysDB["a"].fifo = {2}

\* C25: a set on a Linda that is not cancelled returns the wake-writers
\* indication (true) exactly when the key had a Slot with limit > 0 and
\* count >= limit before the call and the call gives no value or fewer values
\* than the limit; it returns nothing otherwise, so never for an absent key
\* nor for a Slot with a negative limit.  readHappened is broadcast iff the
\* indication is returned, writeHappened iff one value at least is given.
C25_SetWakeIndication ==
    [][ last'.op = "set" /\ last'.flag = None =>
          LET k          == last'.args[1]
              n          == Len(last'.args) - 1
              indication == last'.ret = <<True>>
          IN  /\ indication =
                   (/\ k \in DOMAIN KeysDB
                    /\ KeysDB[k].limit > 0
                    /\ KeysDB[k].count >= KeysDB[k].limit
                    /\ (n = 0 \/ n < KeysDB[k].limit))
              /\ (~ indication => last'.ret = <<>>)
              /\ ("readHappened" \in last'.bcast) = indication
              /\ ("writeHappened" \in last'.bcast) = (n >= 1)
      ]_vars

\* C25: a set of one value on a key that held two values under a limit of 2
\* has returned the indication and broadcast on both condition variables
C25_Witness ==
    /\ last.op = "set" /\ Len(last.args) = 2
    /\ last.ret = <<True>>
    /\ last.bcast = {"readHappened", "writeHappened"}
    /\ KeysDB[last.args[1]].limit = 2
    /\ KeysDB[last.args[1]].count = 1

\* C26: a limit call that the Linda layer lets through (the Linda is not
\* cancelled, the limit is absent or >= 0) leaves the key with a Slot whose
\* first, count and contents are those of before (those of a fresh Slot when
\* the key had none) and whose limit is the new limit (-1 when absent); it
\* returns the wake-writers indication exactly when (oldLimit >= 0 and
\* count >= oldLimit) and (newLimit < 0 or count < newLimit), and readHappened
\* is broadcast iff the indication is returned.
C26_LimitPrimitive ==
    [][ /\ last'.op = "limit" /\ last'.flag = None
        /\ (Len(last'.args) = 1 \/ last'.args[2] >= 0)
        => LET k          == last'.args[1]
               newLimit   == IF Len(last'.args) >= 2 THEN last'.args[2] ELSE -1
               old        == Pre(k)
               indication == last'.ret = <<True>>
           IN  /\ k \in DOMAIN KeysDB'
               /\ KeysDB'[k] = [old EXCEPT !.limit = newLimit]
               /\ \A j \in DOMAIN KeysDB' \ {k} : j \in DOMAIN KeysDB /\ KeysDB'[j] = KeysDB[j]
               /\ indication =
                    (/\ old.limit >= 0 /\ old.count >= old.limit
                     /\ (newLimit < 0 \/ old.count < newLimit))
               /\ (~ indication => last'.ret = <<>>)
               /\ last'.bcast = IF indication THEN {"readHappened"} ELSE {}
      ]_vars

\* C26: the limit of a key that held one value under a limit of 1 was raised
\* to 2: the indication is returned, readHappened is broadcast, the value is
\* where it was
C26_Witness ==
    /\ last.op = "limit" /\ Len(last.args) = 2
    /\ last.ret = <<True>>
    /\ last.bcast = {"readHappened"}
    /\ KeysDB[last.args[1]].limit = 2
    /\ KeysDB[last.args[1]].count = 1
    /\ DOMAIN KeysDB[last.args[1]].fifo = {KeysDB[last.args[1]].first}


\* ------------------------------------------------ claims on ProtectedCall
\* a call of SpecP ended in this step
Ended == "exit" \in DOMAIN last' /\ last'.op \notin {"call", "close"} /\ last' # last

\* the kinds of key the Linda is said to take
KeyKinds == {"BOOLEAN", "NUMBER", "STRING", "LIGHTUSERDATA"}

\* C21 (as stated): a call whose only argument check is the one of its key
\* (set, count) and that found its keeper ends in an argument error exactly
\* when the key is one of the three reserved light userdata or is not a
\* boolean, a number, a string or a light userdata; a call that ends in an
\* argument error changes no Slot.
C21_KeyValidation ==
    [][ Ended /\ last'.exit \in {"done", "error", "argerror"} =>
          /\ last'.op \in {"set", "count"} /\ last'.exit # "error" =>
                LET k == last'.args[1]
                IN  (last'.exit = "argerror")
                      = (k \in kKeysToCheck \/ lua_type_as_enum(k) \notin KeyKinds)
          /\ last'.exit = "argerror" => KeysDB' = KeysDB
      ]_vars


\* C23 (as stated): no thread that is outside a Linda operation holds the
\* mutex of the Keeper: whatever way a call ended (result, timeout, argument
\* error, error raised by keeper_call, keeper found closed after the lock),
\* it unlocked the mutex it had locked.
C23_MutexReleased ==
    \A w \in Caller : keepers.mutex = w => pc[w] # "idle"


\* C22: once Keepers::close has set isClosing the keeper lookup gives nullptr;
\* a call that starts after that takes no step that changes a Slot or the
\* keeper or uses what close() destroyed, and it ends with nothing returned
\* and no error; a second close() changes nothing of the keepers.
C22_ClosedKeepers ==
    /\ [](keepers.isClosing => whichKeeper = "nullptr")
    /\ [][ \A w \in Caller :
             pc[w] # "idle" /\ pc'[w] # pc[w] /\ call[w].closing =>
                /\ KeysDB' = KeysDB
                /\ keepers' = keepers
                /\ pc'[w] # "undefined"
                /\ pc'[w] = "idle" => last'.exit = "unavailable" /\ last'.ret = <<>>
         ]_vars
    /\ [][ last'.op = "close" /\ last'.exit = "again" /\ last' # last =>
             keepers' = keepers /\ KeysDB' = KeysDB /\ pc' = pc
         ]_vars

C22_Witness ==
    /\ last.op = "send"
    /\ last.closing
    /\ last.exit = "unavailable"
    /\ last.args = <<"a", "x">>
    /\ keepers.keeper_array = "monostate"


\* C29 (as stated): a call that ends in an argument error did not hold the
\* mutex of the Keeper when the error was raised, and changed no Slot.
C29_ErrorsBeforeLock ==
    [][ Ended /\ last'.exit = "argerror" =>
          keepers.mutex # last'.by /\ KeysDB' = KeysDB
      ]_vars

\* C29 (amended): the argument checks run under lua_pcall with the mutex of
\* the Keeper held by the caller.  A call whose arguments are invalid takes no
\* step that changes a Slot, never reaches the body of its operation nor a
\* wait, and ends either in the argument error, raised once the mutex it held
\* is unlocked, or with nothing returned when its keeper is unavailable.
C29_ErrorsUnderLock ==
    /\ [](\A w \in Caller : pc[w] = "pcall" => keepers.mutex = w)
    /\ [][ \A w \in Caller :
             (/\ pc[w] # "idle"
              /\ pc'[w] # pc[w]
              /\ ArgumentError(call[w].op, call[w].args, call[w].until)) =>
                /\ KeysDB' = KeysDB
                /\ pc'[w] \notin {"body", "wait"}
                /\ pc[w] = "pcall" =>
                      pc'[w] = "release" /\ call'[w].rc.exit = "argerror"
                /\ pc'[w] = "idle" =>
                      /\ last'.exit \in {"argerror", "unavailable"}
                      /\ last'.exit = "argerror" =>
                            /\ last'.ret = <<Error>>
                            /\ keepers.mutex = w
                            /\ keepers'.mutex = Free
         ]_vars

C29_Witness ==
    /\ last.op = "limit"
    /\ last.args = <<"a", -1>>
    /\ last.exit = "argerror"
    /\ keepers.mutex = Free
    /\ ~keepers.isClosing


\* C30 (as stated): a batched receive whose min is < 1 or > max takes no step
\* that removes a value, never waits on the condition variable, and ends in
\* an argument error (or with nothing when its keeper is unavailable).
C30_BatchedBounds ==
    [][ \A w \in Caller :
          (/\ pc[w] # "idle"
           /\ pc'[w] # pc[w]
           /\ call[w].op = "receive_batched"
           /\ (call[w].args[2] < 1 \/ call[w].args[2] > call[w].args[3])) =>
             /\ KeysDB' = KeysDB
             /\ pc'[w] # "wait"
             /\ pc'[w] = "idle" => last'.exit \in {"argerror", "unavailable"}
      ]_vars


\* ------------------------------------------------ claims on the loop
\* worker w takes the step at the top of its loop
AtTop(w) == pc[w] = "top" /\ pc'[w] # "top"

Ends(w) == pc[w] \in {"top", "probe"} /\ pc'[w] = "idle"

\* wait_until returns to worker w in this step
Wakes(w) == pc[w] \in {"waiting", "notified"} /\ pc'[w] \notin {"waiting", "notified"}

\* what holds of the loop whatever the wait returned: a send returns true only
\* from the step of its primitive, which added its values to the Slot; a
\* receive returns values only from the step of its primitive, which removed
\* them from the Slot; a wakeup leads to the top of the loop and changes no
\* Slot, and after no_timeout the top goes on to the primitive unless the
\* call is cancelled
SuccessIsOfThePrimitive(w) ==
    LET c == call[w]
        k == c.args[1]
    IN  /\ Ends(w) /\ c.op = "send" /\ call'[w].ret = <<True>> =>
              /\ pc[w] = "probe"
              /\ k \in DOMAIN KeysDB'
              /\ Contents(KeysDB'[k]) = Contents(Pre(k)) \o ValsOf(c.args)
        /\ (/\ Ends(w) /\ c.op # "send" /\ call'[w].exit = "return"
            /\ call'[w].ret[1] # Nil) =>
              /\ pc[w] = "probe"
              /\ call'[w].ret[1] = k
              /\ k \in DOMAIN KeysDB /\ k \in DOMAIN KeysDB'
              /\ Contents(KeysDB[k]) = ValsOf(call'[w].ret) \o Contents(KeysDB'[k])
        /\ Wakes(w) => pc'[w] = "top" /\ KeysDB' = KeysDB
        /\ (AtTop(w) /\ c._try_again /\ lanes[w] = None /\ cancelRequest = None) =>
              pc'[w] = "probe"

\* C27 (as stated): a send returns true and a receive returns values only from
\* a primitive that did it in that call; a wakeup with no_timeout only leads
\* to another attempt; after a wait that returned timeout the call ends at
\* the top of the loop, with no other attempt, and returns the timeout result.
C27_TimeoutResult ==
    [][ \A w \in Workers :
          /\ SuccessIsOfThePrimitive(w)
          /\ AtTop(w) /\ ~call[w]._try_again =>
                /\ pc'[w] = "idle"
                /\ KeysDB' = KeysDB
                /\ call'[w].exit = "return"
                /\ call'[w].ret = IF call[w].op = "send" THEN <<False>> ELSE <<Nil, Timeout>>
      ]_vars

\* C27 (amended): the same, but after a wait that returned timeout the call
\* returns the timeout result only if the cancel request sampled at that top
\* is None; on Soft it returns the cancel sentinel, on Hard it raises.
C27_TimeoutOrCancel ==
    [][ \A w \in Workers :
          /\ SuccessIsOfThePrimitive(w)
          /\ AtTop(w) /\ ~call[w]._try_again =>
                LET _cancel == IF lanes[w] # None THEN lanes[w] ELSE cancelRequest
                IN  /\ pc'[w] = "idle"
                    /\ KeysDB' = KeysDB
                    /\ _cancel = None =>
                          /\ call'[w].exit = "return"
                          /\ call'[w].ret = IF call[w].op = "send" THEN <<False>>
                                            ELSE <<Nil, Timeout>>
                    /\ _cancel = Soft =>
                          /\ call'[w].exit = "return"
                          /\ call'[w].ret = IF call[w].op = "send" THEN <<CancelError>>
                                            ELSE <<Nil, CancelError>>
                    /\ _cancel = Hard => call'[w].exit = "raise"
      ]_vars

\* a send that waited for room and timed out returned false, the key still full
C27_Witness ==
    /\ pc["w1"] = "idle"
    /\ call["w1"].op = "send"
    /\ call["w1"].ret = <<False>>
    /\ ~call["w1"]._try_again
    /\ cancelRequest = None
    /\ \A w \in Workers : lanes[w] = None


\* ------------------------------------------------ claims on linda_cancel
\* C40 (as stated): linda:cancel() called with a mode that is none of read,
\* write, both and none raises an error, leaves the Linda's cancel request
\* as it was and broadcasts on no condition variable.
C40_UnknownModeKeepsFlag ==
    [][ (last'.op = "cancel" /\ last'.args # <<>>
         /\ last'.args[1] \notin {"read", "write", "both", "none"}) =>
          /\ last'.ret = <<Error>>
          /\ cancelRequest' = cancelRequest
          /\ last'.bcast = {}
      ]_vars


\* C39 (as stated): the Linda's cancel request is None at first and the only
\* cancel calls are cancel("none"): no send, receive, set or limit of a
\* worker returns the cancel sentinel.
C39_NoneNeverObserved ==
    [][ \A w \in Workers :
          (call'[w] # call[w] /\ "ret" \in DOMAIN call'[w]) =>
             call'[w].ret \notin {<<CancelError>>, <<Nil, CancelError>>}
      ]_vars


\* C37: a send of n values with no timeout whose key has room for the n values
\* returns true in the end, unless the key loses that room again or the Linda
\* is cancelled: it does not stay blocked while it could succeed.
C37_BlockedSendCompletes ==
    \A w \in Workers :
        (Blocking(w, "send") /\ HasRoom(call[w].args[1], Len(call[w].args) - 1)
            /\ cancelRequest = None)
        ~> \/ pc[w] = "idle" /\ call[w].op = "send" /\ call[w].ret = <<True>>
           \/ pc[w] # "idle" /\ ~ HasRoom(call[w].args[1], Len(call[w].args) - 1)
           \/ cancelRequest # None


\* the step is made by a worker with the Keeper mutex locked: a pass of its
\* send or receive loop, or a whole limit or set call, which locks the free
\* mutex; the main thread, which calls linda:cancel(), locks nothing
StepUnderMutex ==
    \/ \E s \in Workers : pc[s] = "probe" /\ pc'[s] # "probe"
    \/ MutexFree /\ pc'[Main] = pc[Main]

\* C33: a step that notifies a worker waiting on readHappened or on
\* writeHappened is made by a thread that holds the Keeper mutex.
C33_BroadcastUnderMutex ==
    [][ (\E w \in Workers : pc[w] = "waiting" /\ pc'[w] = "notified")
          => StepUnderMutex ]_vars


\* the last call went through keeper_call
KeeperCalled == last.op # "init" /\ "exit" \in DOMAIN last

\* C31: a call during which the copy engine failed, copying the arguments into
\* the keeper or the results out of it, raises an error and leaves every Slot
\* as it was before the call: the primitive has not run.
C31_CopyFailureKeepsSlots ==
    (KeeperCalled /\ last.exit \in {"copy_in", "copy_out"})
        => last.ret = <<Error>> /\ KeysDB = last.pre /\ ~last.called


\* C32 (as stated): after a keeper primitive other than clear, with any
\* threshold T >= 0, 0 included, a usage >= T forces a full collection, and a
\* usage after it above T makes the call report an error.
C32_PacingFromZero ==
    (KeeperCalled /\ last.op # "clear" /\ keepers.gc_threshold >= 0
        /\ last.usage >= keepers.gc_threshold)
        => /\ last.gc \in {"LUA_GCCOLLECT", "raise"}
           /\ last.after > keepers.gc_threshold => last.ret = <<Error>>

\* C32: after a keeper primitive other than clear, with a threshold T > 0, a
\* usage >= T forces a full collection, and the call reports an error exactly
\* when the usage after it is above T; a usage below T is only read; with
\* T = 0 one GC step is made, nothing is compared and no error is reported;
\* with T < 0 nothing is done; clear does nothing to the GC and never raises.
C32_GCPacing ==
    KeeperCalled =>
        LET T == keepers.gc_threshold
        IN  IF last.op = "clear"
            THEN last.gc = "nothing" /\ last.ret # <<Error>>
            ELSE /\ (T > 0 /\ last.usage >= T) =>
                       /\ last.gc \in {"LUA_GCCOLLECT", "raise"}
                       /\ last.gc = "raise" <=> last.after > T
                       /\ last.gc = "raise" => last.ret = <<Error>>
                 /\ (T > 0 /\ last.usage < T) => last.gc = "LUA_GCCOUNT"
                 /\ T = 0 => last.gc = "LUA_GCSTEP" /\ last.exit # "gc"
                 /\ T < 0 => last.gc = "nothing"

\* C32: a send ran with a positive threshold, the usage was at the threshold
\* or above and stayed above it after the collection: the call raised
C32_Witness ==
    /\ KeeperCalled /\ last.op = "send"
    /\ keepers.gc_threshold > 0 /\ last.usage >= keepers.gc_threshold
    /\ last.after > keepers.gc_threshold
    /\ last.gc = "raise" /\ last.ret = <<Error>>


\* the last call stored values in the Slot of its key
Enqueued ==
    /\ KeeperCalled /\ last.called
    /\ \/ last.op = "send" /\ Contents(Pre(last.args[1])) # Contents(KeyUD_Create)
              /\ KeysDB # last.pre
       \/ last.op = "set" /\ Len(last.args) > 1

\* C38: a send or set call that stored values in a Slot, and whose copies to
\* and from the keeper succeeded, has broadcast on writeHappened before it
\* returned or raised, on the path where GC pacing raises an error after the
\* primitive as on the path where it does not.
C38_EnqueueBroadcasts ==
    (Enqueued /\ last.exit \in {"ok", "gc"}) => "writeHappened" \in last.bcast


\* C34: a thread that reads or writes the Slots or the Linda's table of keys
\* holds the Keeper's mutex: a worker in the body of its call (dump included),
\* and the thread that evaluated linda:__towatch().
C34_SlotsUnderMutex ==
    /\ \A w \in Caller : pc[w] = "body" => keepers.mutex = w
    /\ last.op = "towatch" => last.mutex = last.by


\* C35: every Linda created was constructed over N > 0 keepers and has
\* keeperIndex = group mod N, within 0 .. N - 1: with a group, creation
\* requires 0 <= group < N; with none, it requires N < 2; with N = 0 no Linda
\* is created and no modulo by zero is computed.
C35_KeeperIndex ==
    /\ \A w \in Caller : pc[w] # "undefined"
    /\ \A l \in DOMAIN lindas :
          /\ lindas[l].N > 0
          /\ lindas[l].keeperIndex = lindas[l].group % lindas[l].N
          /\ lindas[l].keeperIndex >= 0 /\ lindas[l].keeperIndex < lindas[l].N


\* the Slots of the Linda l in the Keeper's table: key and KeyUD
SlotsOf(ldb, l) == IF l \in DOMAIN ldb THEN {<<k, ldb[l][k]>> : k \in DOMAIN ldb[l]} ELSE {}

====
